---- MODULE Spec2Model ----
(***************************************************************************)
(* A model of the GHOST endpoint agent: the plugin Supervisor              *)
(* (PluginManager), its Launch and Adopt tasks (Plugin.LaunchBinary,       *)
(* Plugin.ResumePlugin), the embedded Store (Database), the Queue Drainer  *)
(* (MessageQueueManager), the Checkin loop (CheckinManager) and the        *)
(* Transport (comms.Sender).                                               *)
(*                                                                         *)
(* The specifications share the variables:                                 *)
(*   Spec          an offline agent: the Supervisor, its tasks, the Store  *)
(*                 and the OS processes, for configurations of persistent  *)
(*                 and one-shot plugins (which never read the clock)       *)
(*   SpecFair      Spec with the scheduling of the goroutines              *)
(*   SpecPeriodic  the same agent with a periodic plugin and the clock     *)
(*   SpecOnline    the Supervisor and its tasks of an online agent         *)
(*   SpecComms     an online agent: the producers of the queue, the        *)
(*                 Drainer, the Checkin loop and the Transport             *)
(*   SpecBoot      SpecComms from the registration in Bootstrap on         *)
(*   SpecThrottle  one Throttler, its process and the task that owns it    *)
(*   SpecVerify    VerifyHashes over the resource files of one plugin, and *)
(*                 the Launch task that follows it                         *)
(*   SpecThrottleWindows  the sleep duration of the Throttler of           *)
(*                 plugins_windows.go                                      *)
(* A process that has exited is gone from the process table at once.       *)
(***************************************************************************)
EXTENDS Integers, Sequences, FiniteSets, TLC

(***************************************************************************)
(* Bounds of the model.                                                    *)
(***************************************************************************)
\* OS process identifiers available to plugin children: 1..MaxPid
MaxPid == 1
\* launch frequency of the periodic plugin of the configurations, in clock units
Frequency == 1
\* the clock runs from StartTime for Horizon units
Horizon == 2
\* agent restarts explored
MaxRestarts == 1
\* Launch/Adopt goroutines alive at once in one agent instance
MaxTasks == 2
\* the retention cap of the queue trigger (20000 in the source), scaled
QueueCap == 3
\* the batch size of MessageQueueSelectURI (100 in the source), scaled
BatchLimit == 2
\* messages pushed by producers in SpecComms
MaxPush == 4
\* the longest sleepDuration of a Throttler, in microseconds
MaxSleep == 10000
\* calls of ThrottleCpu followed in SpecThrottleWindows
MaxTicks == 4

(***************************************************************************)
(* Values.                                                                 *)
(***************************************************************************)
UUIDs == {"u1", "u2"}
PIDs == 1..MaxPid
\* os.Getpid() of an agent instance; never a plugin PID
ManagerPids == {101, 102}
\* time.Time{}: the zero time of an unset LastStart/LastExit
ZeroTime == 0
\* the clock at start: later than the zero time plus the launch frequency, as
\* any real clock is
StartTime == ZeroTime + Frequency + 1
MaxTime == StartTime + Horizon
\* resource files of the plugin in SpecVerify
ResourceCount == 2
\* pluginlog messages queued by the tasks in SpecOnline (more than QueueCap)
MaxLogs == 5

PLUGINLOG == "/core/pluginlog/"

\* src/agent/client/plugins.go:17-35  type Plugin (the fields the model follows)
ZeroPlugin ==
    [UUID |-> "", Name |-> "", Mode |-> "", LaunchFrequency |-> 0,
     CPULimit |-> 0, RetryFailure |-> FALSE,
     Status |-> "", StatusMessage |-> "", ProcessName |-> "", ProcessID |-> 0,
     LastStart |-> ZeroTime, LastExit |-> ZeroTime, CurrentManager |-> 0]

\* a plugin as the YAML configuration gives it: the runtime fields are zero
ConfigPlugin(u, mode, freq, cpu, retry) ==
    [ZeroPlugin EXCEPT !.UUID = u, !.Name = u, !.Mode = mode,
                       !.LaunchFrequency = freq, !.CPULimit = cpu,
                       !.RetryFailure = retry]

\* the configurations explored (client.Config.Plugins)
Persistent1 == ConfigPlugin("u1", "persistent", 0, 50, FALSE)
Periodic1 == ConfigPlugin("u1", "periodic", Frequency, 0, FALSE)
OneshotRetry1 == ConfigPlugin("u1", "oneshot", 0, 0, TRUE)
Oneshot1 == ConfigPlugin("u1", "oneshot", 0, 0, FALSE)
Persistent2 == ConfigPlugin("u2", "persistent", 0, 0, FALSE)
\* configurations without a periodic plugin (Spec)
Configs ==
    { <<Persistent1>>, <<OneshotRetry1>>, <<Oneshot1>>, <<Persistent2>> }
\* configurations of the periodic plugin (SpecPeriodic)
PeriodicConfigs == { <<Periodic1>> }

\* the executable name the OS reports for a child of plugin u
ExeName(u) == IF u = "u1" THEN "exe1" ELSE "exe2"
\* the executable name of a process that is no plugin child
ForeignName == "other"

NoProc == [name |-> "", plugin |-> ""]

VARIABLES
    \* ---- the agent instance
    config,     \* client.Config.Plugins
    manager,    \* os.Getpid() of the running agent (currentManager)
    mode,       \* [Debug, Offline]: client.Debug, client.Offline
    agentUp,    \* FALSE after a panic, until the agent is restarted
    restarts,   \* restarts so far
    \* ---- the Store
    plugins,    \* table plugins: uuid -> row (ZeroPlugin when absent)
    queue,      \* table message_queue: sequence of rows in rowid order
    \* ---- the OS
    procs,      \* process table: pid -> [name, plugin] or NoProc
    now,        \* the clock
    realExit,   \* per uuid of a periodic plugin, the time its last child died
    \* ---- goroutines
    sup,        \* the Supervisor (PluginManager)
    tasks,      \* Launch and Adopt tasks
    throttlers, \* PIDs with a MonitorCpu goroutine of this agent instance
    \* ---- the Transport (comms.Sender)
    sender,     \* [ControllerURL, Proxy, transportProxy]: s.ControllerURL,
                \* s.Proxy and s.transport.Proxy
    mutex,      \* s.mutex: the goroutine that holds it, or ""
    inflight,   \* the requests handed to s.httpClient.Do that have not returned
    \* ---- goroutines that use the Transport
    drainer,    \* MessageQueueManager
    checkin,    \* CheckinManager
    pushed,     \* messages queued by producers so far
    \* ---- the host of the agent
    os,         \* [configFile, exitCode]: the content of the file at
                \* client.ConfigPath, and the code os.Exit was called with
    \* ---- one Throttler (MonitorCpu), its child and the task that owns it
    throttle,
    \* ---- the main goroutine
    boot,       \* [pc, UUID, keyUUID]: where main is in Bootstrap, client.UUID,
                \* and the value of key UUID in the key store
    \* ---- one call of Plugin.VerifyHashes
    verify      \* [pc, i, want, disk]: where the call is, the resource file it
                \* has come to, the hashes of the configuration and the
                \* files in the working directory

vars == <<config, manager, mode, agentUp, restarts, plugins, queue, procs, now,
          realExit, sup, tasks, throttlers, sender, mutex, inflight, drainer,
          checkin, pushed, os, throttle, boot, verify>>

supVars == <<config, manager, mode, agentUp, restarts, plugins, procs, now,
             realExit, sup, tasks, throttlers>>
commsVars == <<sender, mutex, inflight, drainer, checkin, pushed, os, boot>>

(***************************************************************************)
(* The Store: table plugins.                                               *)
(***************************************************************************)
\* the columns of table plugins: the Plugin fields that PluginInsert binds
Row(p) ==
    [ZeroPlugin EXCEPT !.UUID = p.UUID, !.Name = p.Name, !.Mode = p.Mode,
                       !.ProcessName = p.ProcessName, !.Status = p.Status,
                       !.StatusMessage = p.StatusMessage, !.LastExit = p.LastExit,
                       !.LastStart = p.LastStart, !.ProcessID = p.ProcessID,
                       !.CurrentManager = p.CurrentManager]

\* PluginInsert with the INSERT OR IGNORE statement alone
PluginInsert_insertOnly(tbl, p) ==
    IF tbl[p.UUID].UUID = "" THEN [tbl EXCEPT ![p.UUID] = Row(p)] ELSE tbl

\* UPDATE ... WHERE uuid=?; INSERT OR IGNORE: an upsert by uuid
PluginInsert(tbl, p) == [tbl EXCEPT ![p.UUID] = Row(p)]

\* SELECT ... WHERE uuid=?: the row, or the zero Plugin (UUID "") when absent
PluginSelectUUID(tbl, u) == tbl[u]

\* status LIKE %pattern%: of the statuses a row can hold ("", "running",
\* "error", "complete") the pattern "running" is contained in itself only
Like(pattern, s) == s = pattern

\* SELECT (no current_manager) ... WHERE status LIKE %status%
PluginSelectStatus(tbl, status) ==
    { [tbl[u] EXCEPT !.CurrentManager = 0] :
        u \in { v \in UUIDs : tbl[v].UUID # "" /\ Like(status, tbl[v].Status) } }

(***************************************************************************)
(* The Store: table message_queue.                                         *)
(***************************************************************************)
RowIds(q) == { q[i].rowid : i \in 1..Len(q) }
MaxRowId(q) == IF q = <<>> THEN 0 ELSE q[Len(q)].rowid

\* rolling_queue with the offset of the subquery one too large
RollingQueue_keepOneMore(q) ==
    IF Len(q) > QueueCap + 1
    THEN LET cut == q[Len(q) - QueueCap - 1].rowid
         IN  SelectSeq(q, LAMBDA r : r.rowid > cut)
    ELSE q

\* trigger rolling_queue: DELETE WHERE rowid <= (the rowid at offset QueueCap
\* in descending order); no row at that offset: nothing is deleted
RollingQueue(q) ==
    IF Len(q) > QueueCap
    THEN LET cut == q[Len(q) - QueueCap].rowid
         IN  SelectSeq(q, LAMBDA r : r.rowid > cut)
    ELSE q

\* INSERT INTO message_queue: rowid is INTEGER PRIMARY KEY, so the new row gets
\* the largest rowid in the table plus one; then the trigger runs
MessageQueueInsert(q, postString, postURI) ==
    RollingQueue(Append(q, [rowid |-> MaxRowId(q) + 1,
                            post_string |-> postString, post_uri |-> postURI]))

\* MessageQueueSelectURI with WHERE post_uri = uri
MessageQueueSelectURI_byUri(q, uri) ==
    LET mine == SelectSeq(q, LAMBDA r : r.post_uri = uri)
    IN  SubSeq(mine, 1, IF Len(mine) < BatchLimit THEN Len(mine) ELSE BatchLimit)

\* MessageQueueSelectURI taking the newest rows first (ORDER BY ROWID DESC)
MessageQueueSelectURI_newestFirst(q, uri) ==
    LET n == IF Len(q) < BatchLimit THEN Len(q) ELSE BatchLimit
    IN  [i \in 1..n |-> q[Len(q) + 1 - i]]

\* SELECT rowid, post_string ... ORDER BY ROWID LIMIT BatchLimit (uri is not used)
MessageQueueSelectURI(q, uri) ==
    SubSeq(q, 1, IF Len(q) < BatchLimit THEN Len(q) ELSE BatchLimit)

\* DELETE FROM message_queue WHERE rowid IN (rowIds)
MessageQueueDelete(q, rowIds) == SelectSeq(q, LAMBDA r : r.rowid \notin rowIds)

(***************************************************************************)
(* Plugin methods.                                                         *)
(***************************************************************************)
\* PluginToSend without the clearing of current_manager
PluginToSend_asStored(p) == p

\* the copy queued for the controller: current_manager cleared
PluginToSend(p) == [p EXCEPT !.CurrentManager = 0]

\* QueuePluginLog: queue only, and only when online
QueuePluginLog(q, p) ==
    IF mode.Offline THEN q ELSE MessageQueueInsert(q, PluginToSend(p), PLUGINLOG)

\* UpdateStatus: PluginInsert, then the pluginlog message
UpdateStatusPlugins(tbl, p) == PluginInsert(tbl, p)
UpdateStatusQueue(q, p) == QueuePluginLog(q, p)

\* SetError: status "error", the message, LastExit = now; then UpdateStatus
SetErrorPlugin(p, msg) ==
    [p EXCEPT !.Status = "error", !.StatusMessage = msg, !.LastExit = now]

\* ps.FindProcess(pid): the process, or nil (NoProc)
FindProcess(pid) == IF pid \in PIDs THEN procs[pid] ELSE NoProc

\* IsRunning without the comparison of the executable name
IsRunning_anyName(tbl, u) ==
    LET storedPlugin == PluginSelectUUID(tbl, u)
    IN  /\ storedPlugin.Status = "running"
        /\ ~(storedPlugin.ProcessID = 0 \/ storedPlugin.ProcessName = "")
        /\ FindProcess(storedPlugin.ProcessID) # NoProc

\* IsRunning on the stored row of uuid u
IsRunning(tbl, u) ==
    LET storedPlugin == PluginSelectUUID(tbl, u)
    IN  /\ storedPlugin.Status = "running"
        /\ ~(storedPlugin.ProcessID = 0 \/ storedPlugin.ProcessName = "")
        /\ FindProcess(storedPlugin.ProcessID) # NoProc
        /\ FindProcess(storedPlugin.ProcessID).name = storedPlugin.ProcessName

(***************************************************************************)
(* Goroutines of the Supervisor.                                           *)
(***************************************************************************)
TaskIds == 1..MaxTasks

\* kind: "launch" (LaunchBinary) or "adopt" (ResumePlugin); p: the goroutine's
\* copy of the Plugin; pid: cmd.Process.Pid or currentPID; ch: items buffered
\* in its channel of capacity 1; childDead/exitErr: what cmd.Wait will return;
\* latest: among the goroutines alive, this is the one started last
NoTask ==
    [kind |-> "none", pc |-> "", p |-> ZeroPlugin, pid |-> 0, ch |-> 0,
     childDead |-> FALSE, exitErr |-> "", latest |-> FALSE, monitor |-> FALSE]

NewTask(kind, p) ==
    [NoTask EXCEPT !.kind = kind, !.pc = "start", !.p = p, !.latest = TRUE]

\* the goroutines after `go` has started one more in slot t
Started(t, kind, p) ==
    [x \in TaskIds |-> IF x = t THEN NewTask(kind, p)
                       ELSE [tasks[x] EXCEPT !.latest = FALSE]]

FreeTaskIds == { t \in TaskIds : tasks[t].kind = "none" }
FreeTask == CHOOSE t \in FreeTaskIds : \A o \in FreeTaskIds : t <= o

\* the Supervisor at the top of PluginManager
SupStart(cfg) ==
    IF Len(cfg) = 0
    THEN [pc |-> "sleep", i |-> 0, p |-> ZeroPlugin, wait |-> 0]
    ELSE [pc |-> "read", i |-> 1, p |-> ZeroPlugin, wait |-> 0]

\* `continue`, or the end of the body of the range loop: the next plugin, or
\* time.Sleep after the last one
SupContinue ==
    IF sup.i < Len(config)
    THEN [sup EXCEPT !.pc = "read", !.i = sup.i + 1, !.p = ZeroPlugin, !.wait = 0]
    ELSE [sup EXCEPT !.pc = "sleep", !.i = 0, !.p = ZeroPlugin, !.wait = 0]

\* u is a periodic plugin of the configuration
Periodic(u) ==
    \E k \in 1..Len(config) : config[k].UUID = u /\ config[k].Mode = "periodic"

\* the record of the deaths of plugin children, after the processes in pids died
Died(pids) ==
    [u \in UUIDs |->
        IF Periodic(u) /\ \E pid \in pids : procs[pid].plugin = u
        THEN now ELSE realExit[u]]

\* a process is gone (it exited or was killed): cmd.Wait of the Launch task
\* that started it will return err
Reaped(tks, pid, err) ==
    [t \in TaskIds |->
        IF /\ tks[t].kind = "launch" /\ tks[t].pid = pid
           /\ tks[t].pc \in {"launched", "waiting"} /\ ~tks[t].childDead
        THEN [tks[t] EXCEPT !.childDead = TRUE, !.exitErr = err]
        ELSE tks[t]]

\* time.Sleep(3 s) is over: the next pass over client.Config.Plugins
SupWake ==
    /\ agentUp /\ sup.pc = "sleep"
    /\ sup' = SupStart(config)
    /\ UNCHANGED <<commsVars, throttle, verify, config, manager, mode, agentUp, restarts, plugins, queue,
                   procs, now, realExit, tasks, throttlers>>

\* p, err := client.LocalDb.PluginSelectUUID(plugin.UUID)
SupRead ==
    /\ agentUp /\ sup.pc = "read"
    /\ \E ok \in BOOLEAN :
         sup' = IF ok
                THEN [sup EXCEPT !.pc = "decide",
                                 !.p = PluginSelectUUID(plugins, config[sup.i].UUID)]
                ELSE SupContinue
    /\ UNCHANGED <<commsVars, throttle, verify, config, manager, mode, agentUp, restarts, plugins, queue,
                   procs, now, realExit, tasks, throttlers>>

\* Decision resuming every running plugin, whoever manages it
Decision_resumeOwn(plugin, p, isRunning) ==
    CASE plugin.Mode = "oneshot" ->
           IF p.Status = "" THEN "launch"
           ELSE IF p.Status = "error"
                THEN (IF plugin.RetryFailure THEN "launch" ELSE "continue")
                ELSE "none"
      [] plugin.Mode \in {"persistent", "periodic"} ->
           IF ~isRunning
           THEN (IF plugin.Mode = "persistent"
                    \/ now > p.LastExit + plugin.LaunchFrequency
                 THEN "launch" ELSE "none")
           ELSE "resume"
      [] OTHER -> "none"

\* Decision retrying a failed one-shot whatever RetryFailure says
Decision_retryAlways(plugin, p, isRunning) ==
    CASE plugin.Mode = "oneshot" ->
           IF p.Status = "" \/ p.Status = "error" THEN "launch" ELSE "none"
      [] plugin.Mode = "persistent" ->
           IF ~isRunning THEN "launch"
           ELSE IF p.CurrentManager # manager THEN "resume" ELSE "none"
      [] plugin.Mode = "periodic" ->
           IF ~isRunning
           THEN (IF now > p.LastExit + plugin.LaunchFrequency THEN "launch" ELSE "none")
           ELSE IF p.CurrentManager # manager THEN "resume" ELSE "none"
      [] OTHER -> "none"

\* the decision of one pass for plugin, given the row p read before and the
\* answer of IsRunning: "launch", "resume", "none" or "continue"
Decision(plugin, p, isRunning) ==
    CASE plugin.Mode = "oneshot" ->
           IF p.Status = "" THEN "launch"
           ELSE IF p.Status = "error"
                THEN (IF plugin.RetryFailure THEN "launch" ELSE "continue")
                ELSE "none"
      [] plugin.Mode = "persistent" ->
           IF ~isRunning THEN "launch"
           ELSE IF p.CurrentManager # manager THEN "resume" ELSE "none"
      [] plugin.Mode = "periodic" ->
           IF ~isRunning
           THEN (IF now > p.LastExit + plugin.LaunchFrequency THEN "launch" ELSE "none")
           ELSE IF p.CurrentManager # manager THEN "resume" ELSE "none"
      [] OTHER -> "none"

\* the body of the loop from line 29 to the start of the task
SupDecide ==
    /\ agentUp /\ sup.pc = "decide"
    /\ LET plugin == [config[sup.i] EXCEPT !.ProcessID = sup.p.ProcessID]
           d == Decision(plugin, sup.p, IsRunning(plugins, plugin.UUID))
       IN  \E ok \in BOOLEAN :
             IF (~ok /\ plugin.Mode # "oneshot") \/ d = "continue"
             THEN \* IsRunning returned an error, or a one-shot that is not retried
                  /\ sup' = SupContinue
                  /\ tasks' = tasks
             ELSE IF d = "none"
             THEN /\ sup' = [sup EXCEPT !.pc = "gc"]
                  /\ tasks' = tasks
             ELSE \* go plugin.LaunchBinary(ch, ...) or go plugin.ResumePlugin(ch, ...)
                  /\ FreeTaskIds # {}
                  /\ tasks' = Started(FreeTask,
                                      IF d = "launch" THEN "launch" ELSE "adopt",
                                      plugin)
                  /\ sup' = [sup EXCEPT !.pc = "wait", !.wait = FreeTask]
    /\ UNCHANGED <<commsVars, throttle, verify, config, manager, mode, agentUp, restarts, plugins, queue,
                   procs, now, realExit, throttlers>>

\* <-ch : block until the task has sent on its channel
SupWait ==
    /\ agentUp /\ sup.pc = "wait"
    /\ tasks[sup.wait].ch = 1
    /\ tasks' = [tasks EXCEPT ![sup.wait] =
                    IF tasks[sup.wait].pc = "done" THEN NoTask
                    ELSE [tasks[sup.wait] EXCEPT !.ch = 0]]
    /\ sup' = [sup EXCEPT !.pc = "gc", !.wait = 0]
    /\ UNCHANGED <<commsVars, throttle, verify, config, manager, mode, agentUp, restarts, plugins, queue,
                   procs, now, realExit, throttlers>>

\* the rows of runningPlugins whose UUID is not in client.Config.Plugins
NotFound(runningPlugins) ==
    { rp \in runningPlugins : \A k \in 1..Len(config) : config[k].UUID # rp.UUID }

\* the PIDs the removal branch kills: for a row that is not found and has a
\* ProcessID, the process FindProcess(p.ProcessID) returns, when its name is
\* p.ProcessName; p is the row read for the plugin of this pass
GCKills(p, notFound) ==
    { pid \in PIDs : /\ \E rp \in notFound : rp.ProcessID # 0
                     /\ pid = p.ProcessID
                     /\ FindProcess(pid) # NoProc
                     /\ FindProcess(pid).name = p.ProcessName }

\* the rows written back: status complete, "removed from configuration"
GCMarks(tbl, notFound) ==
    [u \in UUIDs |->
        IF \E rp \in notFound : rp.UUID = u
        THEN Row([(CHOOSE rp \in notFound : rp.UUID = u)
                     EXCEPT !.Status = "complete",
                            !.StatusMessage = "removed from configuration"])
        ELSE tbl[u]]

RECURSIVE ReapAll(_, _)
ReapAll(tks, pids) ==
    IF pids = {} THEN tks
    ELSE LET pid == CHOOSE x \in pids : TRUE
         IN  ReapAll(Reaped(tks, pid, "signal: killed"), pids \ {pid})

\* lines 100-142: remove running plugins not found in the current config
SupGC ==
    /\ agentUp /\ sup.pc = "gc"
    /\ \E ok \in BOOLEAN :
         IF ok
         THEN LET notFound == NotFound(PluginSelectStatus(plugins, "running"))
                  kills == GCKills(sup.p, notFound)
              IN  /\ procs' = [pid \in PIDs |->
                                 IF pid \in kills THEN NoProc ELSE procs[pid]]
                  /\ tasks' = ReapAll(tasks, kills)
                  /\ realExit' = Died(kills)
                  /\ plugins' = GCMarks(plugins, notFound)
         ELSE UNCHANGED <<procs, tasks, realExit, plugins>>
    /\ sup' = SupContinue
    /\ UNCHANGED <<commsVars, throttle, verify, config, manager, mode, agentUp, restarts, queue, now, throttlers>>

(***************************************************************************)
(* The Launch task: Plugin.LaunchBinary.                                   *)
(***************************************************************************)
\* Deferred without the deferred send: a task that returns early is just gone
Deferred_noSignal(t) ==
    IF tasks[t].ch = 1
    THEN [NoTask EXCEPT !.kind = tasks[t].kind, !.pc = "defer", !.ch = 1]
    ELSE NoTask

\* task t returns from its body and runs the deferred `ch <- 0`: the send
\* blocks while the buffer still holds the first send; otherwise it completes
\* and the goroutine is gone (kept as "done" until the Supervisor, when it
\* waits on this channel, has received)
Deferred(t) ==
    IF tasks[t].ch = 1
    THEN [NoTask EXCEPT !.kind = tasks[t].kind, !.pc = "defer", !.ch = 1]
    ELSE IF sup.pc = "wait" /\ sup.wait = t
         THEN [NoTask EXCEPT !.kind = tasks[t].kind, !.pc = "done", !.ch = 1]
         ELSE NoTask

\* the blocked deferred `ch <- 0` completes once the buffer is empty
TaskDefer(t) ==
    /\ agentUp /\ tasks[t].kind # "none" /\ tasks[t].pc = "defer"
    /\ tasks[t].ch = 0
    /\ tasks' = [tasks EXCEPT ![t] = NoTask]
    /\ UNCHANGED <<commsVars, throttle, verify, config, manager, mode, agentUp, restarts, plugins, queue,
                   procs, now, realExit, sup, throttlers>>

\* p.SetError(client, msg) and return: the row and the pluginlog message
TaskSetError(t, p, msg) ==
    LET e == SetErrorPlugin(p, msg)
    IN  /\ plugins' = UpdateStatusPlugins(plugins, e)
        /\ queue' = UpdateStatusQueue(queue, e)
        /\ tasks' = [tasks EXCEPT ![t] = Deferred(t)]

\* LaunchedPlugin without the name of the process
LaunchedPlugin_noName(p, pid, name) ==
    [p EXCEPT !.Status = "running", !.StatusMessage = "running",
              !.ProcessID = pid, !.LastStart = now, !.CurrentManager = manager]

\* the Plugin written after cmd.Start() succeeded with process pid
LaunchedPlugin(p, pid, name) ==
    [p EXCEPT !.Status = "running", !.StatusMessage = "running",
              !.ProcessID = pid, !.ProcessName = name,
              !.LastStart = now, !.CurrentManager = manager]

\* the OS keeps the PID of a child that has exited until cmd.Wait: a Launch
\* task that has not come to cmd.Wait yet still holds the PID of its child
PidHeld(pid) ==
    \E x \in TaskIds : /\ tasks[x].kind = "launch" /\ tasks[x].pc = "launched"
                        /\ tasks[x].pid = pid

\* a panic of a goroutine ends the agent process: its goroutines are gone
Panic ==
    /\ agentUp' = FALSE
    /\ tasks' = [x \in TaskIds |-> NoTask]
    /\ throttlers' = {}

\* lines 217-264: VerifyHashes, cmd.Start, FindProcess, UpdateStatus, ch <- 0
\* (the child, which nobody has waited for yet, is in the process table)
LaunchStart(t) ==
    /\ agentUp /\ tasks[t].kind = "launch" /\ tasks[t].pc = "start"
    /\ LET p == tasks[t].p
       IN  \/ /\ ~mode.Debug
              /\ TaskSetError(t, p, "unable to verify hashes")
              /\ UNCHANGED <<procs, realExit, agentUp, throttlers>>
           \/ /\ TaskSetError(t, p, "unable to start plugin")
              /\ UNCHANGED <<procs, realExit, agentUp, throttlers>>
           \/ \E pid \in PIDs :
                /\ procs[pid] = NoProc /\ ~PidHeld(pid)
                /\ procs' = [procs EXCEPT ![pid] =
                                [name |-> ExeName(p.UUID), plugin |-> p.UUID]]
                /\ \/ TaskSetError(t, [p EXCEPT !.Status = "running",
                                                !.StatusMessage = "running",
                                                !.ProcessID = pid],
                                   "unable to get plugin process information")
                   \/ LET r == LaunchedPlugin(p, pid, ExeName(p.UUID))
                      IN  /\ plugins' = UpdateStatusPlugins(plugins, r)
                          /\ queue' = UpdateStatusQueue(queue, r)
                          /\ tasks' = [tasks EXCEPT ![t].pc = "launched", ![t].p = r,
                                                    ![t].pid = pid, ![t].ch = 1]
                /\ UNCHANGED <<realExit, agentUp, throttlers>>
    /\ UNCHANGED <<commsVars, throttle, verify, config, manager, mode, restarts, now, sup>>

\* lines 266-277: LowerProcessPriority, then MonitorCpu when CPULimit > 0
LaunchPriority(t) ==
    /\ agentUp /\ tasks[t].kind = "launch" /\ tasks[t].pc = "launched"
    /\ LET p == tasks[t].p
           pid == tasks[t].pid
           mine == ~tasks[t].childDead /\ procs[pid] # NoProc
       IN  \/ \* LowerProcessPriority failed: cmd.Process.Kill(), SetError
              /\ procs' = IF mine THEN [procs EXCEPT ![pid] = NoProc] ELSE procs
              /\ realExit' = IF mine THEN Died({pid}) ELSE realExit
              /\ TaskSetError(t, p, "setpriority failed")
              /\ UNCHANGED throttlers
           \/ \* go MonitorCpu: it loops on its select, or (plugins_windows.go:
              \* 23-26, OpenProcess failed) has returned at once
              \E opened \in BOOLEAN :
                /\ tasks' = [tasks EXCEPT ![t].pc = "waiting",
                                          ![t].monitor = (p.CPULimit > 0 /\ opened)]
                /\ throttlers' = IF p.CPULimit > 0 /\ opened
                                 THEN throttlers \cup {pid} ELSE throttlers
                /\ UNCHANGED <<plugins, queue, procs, realExit>>
    /\ UNCHANGED <<commsVars, throttle, verify, config, manager, mode, agentUp, restarts, now, sup>>

\* ExitedPlugin that keeps the PID of the child that has exited
ExitedPlugin_keepPid(p, err) ==
    [p EXCEPT !.Status = IF err # "" THEN "error" ELSE "complete",
              !.StatusMessage = IF err # "" THEN err ELSE "complete",
              !.LastExit = now]

\* the Plugin written when cmd.Wait() returned err ("" for a clean exit)
ExitedPlugin(p, err) ==
    [p EXCEPT !.Status = IF err # "" THEN "error" ELSE "complete",
              !.StatusMessage = IF err # "" THEN err ELSE "complete",
              !.LastExit = now, !.ProcessID = 0]

\* lines 280-306: cmd.Wait() returned; quit <- 0; the terminal UpdateStatus
LaunchFinish(t) ==
    /\ agentUp /\ tasks[t].kind = "launch" /\ tasks[t].pc = "waiting"
    /\ tasks[t].childDead
    \* quit is unbuffered: the send returns when MonitorCpu receives
    /\ tasks[t].p.CPULimit > 0 => tasks[t].monitor
    /\ LET p == tasks[t].p
           r == ExitedPlugin(p, tasks[t].exitErr)
       IN  /\ throttlers' = IF p.CPULimit > 0 THEN throttlers \ {tasks[t].pid}
                            ELSE throttlers
           /\ plugins' = UpdateStatusPlugins(plugins, r)
           /\ queue' = UpdateStatusQueue(queue, r)
           /\ tasks' = [tasks EXCEPT ![t] = Deferred(t)]
    /\ UNCHANGED <<commsVars, throttle, verify, config, manager, mode, agentUp, restarts, procs, now, realExit,
                   sup>>

(***************************************************************************)
(* The Adopt task: Plugin.ResumePlugin.                                    *)
(***************************************************************************)
\* the Plugin written when management is resumed
ResumedPlugin(p, name) ==
    [p EXCEPT !.Status = "running", !.StatusMessage = "resuming control",
              !.CurrentManager = manager, !.ProcessName = name]

\* lines 323-348: FindProcess(p.ProcessID), UpdateStatus, ResumeProcess,
\* ch <- 0, MonitorCpu when CPULimit > 0
AdoptStart(t) ==
    /\ agentUp /\ tasks[t].kind = "adopt" /\ tasks[t].pc = "start"
    /\ LET p == tasks[t].p
           proc == FindProcess(p.ProcessID)
       IN  \/ \* FindProcess returned an error
              /\ TaskSetError(t, [p EXCEPT !.Status = "running",
                                           !.StatusMessage = "resuming control",
                                           !.CurrentManager = manager],
                              "unable to get plugin process information")
              /\ UNCHANGED <<agentUp, throttlers>>
           \/ \* no process with that PID any more: proc is nil, proc.Executable() panics
              /\ proc = NoProc
              /\ Panic
              /\ UNCHANGED <<plugins, queue>>
           \/ /\ proc # NoProc
              /\ LET r == ResumedPlugin(p, proc.name)
                 IN  /\ plugins' = UpdateStatusPlugins(plugins, r)
                     /\ queue' = UpdateStatusQueue(queue, r)
                     /\ tasks' = [tasks EXCEPT ![t].pc = "polling", ![t].p = r,
                                               ![t].pid = p.ProcessID, ![t].ch = 1]
                     /\ throttlers' = IF p.CPULimit > 0
                                      THEN throttlers \cup {p.ProcessID}
                                      ELSE throttlers
              /\ UNCHANGED agentUp
    /\ UNCHANGED <<commsVars, throttle, verify, config, manager, mode, restarts, procs, now, realExit, sup>>

\* lines 355-370: one round of the poll loop
AdoptPoll(t) ==
    /\ agentUp /\ tasks[t].kind = "adopt" /\ tasks[t].pc = "polling"
    /\ LET uuid == tasks[t].p.UUID
           row == PluginSelectUUID(plugins, uuid)
       IN  \/ \* PluginSelectUUID returned an error: p is the zero Plugin; break
              tasks' = [tasks EXCEPT ![t].pc = "ending", ![t].p = ZeroPlugin]
           \/ \* IsRunning returned an error: break
              tasks' = [tasks EXCEPT ![t].pc = "ending", ![t].p = row]
           \/ tasks' = [tasks EXCEPT
                          ![t].p = row,
                          ![t].pc = IF /\ IsRunning(plugins, row.UUID)
                                       /\ tasks[t].pid = row.ProcessID
                                    THEN "polling" ELSE "ending"]
    /\ UNCHANGED <<commsVars, throttle, verify, config, manager, mode, agentUp, restarts, plugins, queue,
                   procs, now, realExit, sup, throttlers>>

\* the Plugin queued (not stored) when the adopted process is gone
AdoptExitedPlugin(p) ==
    [p EXCEPT !.StatusMessage = "exited after monitoring resumed",
              !.LastExit = now,
              !.Status = "exited after monitoring resumed"]

\* AdoptFinish ending the way LaunchBinary ends: the PID cleared, the status
\* "complete", stored with UpdateStatus
AdoptFinish_updateStatus(t) ==
    /\ agentUp /\ tasks[t].kind = "adopt" /\ tasks[t].pc = "ending"
    /\ LET p == tasks[t].p
           r == [p EXCEPT !.Status = "complete", !.StatusMessage = "complete",
                          !.LastExit = now, !.ProcessID = 0]
       IN  /\ throttlers' = IF p.CPULimit > 0 THEN throttlers \ {tasks[t].pid}
                            ELSE throttlers
           /\ p.UUID # ""
           /\ plugins' = UpdateStatusPlugins(plugins, r)
           /\ queue' = UpdateStatusQueue(queue, r)
           /\ tasks' = [tasks EXCEPT ![t] = Deferred(t)]
    /\ UNCHANGED <<commsVars, throttle, verify, config, manager, mode, agentUp, restarts, procs, now,
                   realExit, sup>>

\* AdoptFinish storing the record it queues (UpdateStatus in the place of
\* QueuePluginLog)
AdoptFinish_storeExit(t) ==
    /\ agentUp /\ tasks[t].kind = "adopt" /\ tasks[t].pc = "ending"
    /\ LET p == tasks[t].p
           r == AdoptExitedPlugin(p)
       IN  /\ throttlers' = IF p.CPULimit > 0 THEN throttlers \ {tasks[t].pid}
                            ELSE throttlers
           /\ p.UUID # ""
           /\ plugins' = UpdateStatusPlugins(plugins, r)
           /\ queue' = UpdateStatusQueue(queue, r)
           /\ tasks' = [tasks EXCEPT ![t] = Deferred(t)]
    /\ UNCHANGED <<commsVars, throttle, verify, config, manager, mode, agentUp, restarts, procs, now,
                   realExit, sup>>

\* lines 372-389: quit <- 0 when p.CPULimit > 0 (p is the row read by the
\* poll loop), then QueuePluginLog
AdoptFinish(t) ==
    /\ agentUp /\ tasks[t].kind = "adopt" /\ tasks[t].pc = "ending"
    /\ LET p == tasks[t].p
           r == AdoptExitedPlugin(p)
       IN  /\ throttlers' = IF p.CPULimit > 0 THEN throttlers \ {tasks[t].pid}
                            ELSE throttlers
           /\ queue' = QueuePluginLog(queue, r)
           /\ tasks' = [tasks EXCEPT ![t] = Deferred(t)]
    /\ UNCHANGED <<commsVars, throttle, verify, config, manager, mode, agentUp, restarts, plugins, procs, now,
                   realExit, sup>>

(***************************************************************************)
(* The environment: the OS, the clock, restarts of the agent.              *)
(***************************************************************************)
\* a process exits by itself, cleanly or not
ProcExit(pid) ==
    /\ procs[pid] # NoProc
    /\ procs' = [procs EXCEPT ![pid] = NoProc]
    /\ \E err \in {"", "exit status 1"} : tasks' = Reaped(tasks, pid, err)
    /\ realExit' = Died({pid})
    /\ UNCHANGED <<commsVars, throttle, verify, config, manager, mode, agentUp, restarts, plugins, queue, now,
                   sup, throttlers>>

\* the OS gives a PID that a stored row still names to an unrelated process
ForeignSpawn(pid) ==
    /\ procs[pid] = NoProc /\ ~PidHeld(pid)
    /\ \E u \in UUIDs : plugins[u].ProcessID = pid
    /\ procs' = [procs EXCEPT ![pid] = [name |-> ForeignName, plugin |-> ""]]
    /\ UNCHANGED <<commsVars, throttle, verify, config, manager, mode, agentUp, restarts, plugins, queue, now,
                   realExit, sup, tasks, throttlers>>

Tick ==
    /\ now < MaxTime
    /\ now' = now + 1
    /\ UNCHANGED <<commsVars, throttle, verify, config, manager, mode, agentUp, restarts, plugins, queue,
                   procs, realExit, sup, tasks, throttlers>>

\* the configurations a restarted agent may find: the one it had, or, for the
\* agents of Spec, the one that replaced it
Reconfigured(cfg) ==
    IF cfg \in PeriodicConfigs THEN {cfg} ELSE {cfg, <<Persistent1>>}

\* the agent process ends (os.Exit, a panic, a kill) and is started again,
\* possibly with another configuration; its goroutines are gone, the Store and
\* the plugin processes stay
Restart ==
    /\ restarts < MaxRestarts
    /\ restarts' = restarts + 1
    /\ agentUp' = TRUE
    /\ manager' \in ManagerPids
    /\ config' \in Reconfigured(config)
    /\ sup' = SupStart(config')
    /\ tasks' = [t \in TaskIds |-> NoTask]
    /\ throttlers' = {}
    /\ UNCHANGED <<commsVars, throttle, verify, mode, plugins, queue, procs, now, realExit>>

(***************************************************************************)
(* The Transport: comms.Sender.                                            *)
(***************************************************************************)
\* client.Config.ControllerList and client.Config.ProxyList
ControllerList == <<"https://a/", "https://b">>
ProxyList == <<"http://p1">>

\* strings.ToLower on the proxy settings that occur
ToLower(str) == IF str = "NONE" THEN "none" ELSE str

\* strings.TrimSuffix(url, "/") and strings.Trim(url, "/") on the controller URLs
TrimSuffix(url) == IF url = "https://a/" THEN "https://a" ELSE url
Trim(url) == TrimSuffix(url)

\* what s.transport.Proxy is set to for the setting proxy: "" is nil, no proxy
TransportProxy(proxy) == IF proxy # "" /\ ToLower(proxy) # "none" THEN proxy ELSE ""

\* an error value as the sequence of the pieces of its text; nil is the empty one
NoError == <<>>

\* strings.Contains on texts given as sequences of pieces
Contains(text, sub) ==
    \E k \in 0..(Len(text) - Len(sub)) : SubSeq(text, k + 1, k + Len(sub)) = sub

\* what httpClient.Do can bring back: no response at all, or a response with
\* its status line (Status: the code and the reason phrase the server sent) and
\* a body that is a signed payload, an unsigned payload, or not a payload
NetError == [StatusCode |-> 0, Status |-> <<>>, body |-> ""]
Responses ==
    { NetError,
      [StatusCode |-> 200, Status |-> <<"200", "OK">>, body |-> "signed"],
      [StatusCode |-> 200, Status |-> <<"200", "OK">>, body |-> "unsigned"],
      [StatusCode |-> 200, Status |-> <<"200", "OK">>, body |-> "garbage"],
      [StatusCode |-> 400, Status |-> <<"400", "Bad Request">>, body |-> "garbage"],
      [StatusCode |-> 500, Status |-> <<"500", "Internal Server Error">>,
       body |-> "garbage"],
      [StatusCode |-> 500, Status |-> <<"500", "Server Error">>, body |-> "garbage"],
      [StatusCode |-> 503, Status |-> <<"503", "Service Unavailable">>,
       body |-> "garbage"] }

\* VerifyResponse: the SIGNATURE of the envelope verifies over its jsonString
VerifyResponse(resp) == resp.body = "signed"

\* SendError trusting an envelope whose signature does not verify
SendError_noVerify(resp) ==
    IF resp = NetError THEN <<"NETWORK ERROR: ", "connection refused">>
    ELSE IF resp.StatusCode # 200 THEN <<"Received bad status: ">> \o resp.Status
    ELSE IF resp.body = "garbage"
         THEN <<"Unable to unmarshal payload map: ", "invalid character">>
    ELSE NoError

\* the error Send returns for a response (lines 179-212)
SendError(resp) ==
    IF resp = NetError THEN <<"NETWORK ERROR: ", "connection refused">>
    ELSE IF resp.StatusCode # 200 THEN <<"Received bad status: ">> \o resp.Status
    ELSE IF resp.body = "garbage"
         THEN <<"Unable to unmarshal payload map: ", "invalid character">>
    ELSE IF VerifyResponse(resp) THEN NoError
    ELSE <<"unable to verify response signature">>

\* the payload Send returns with that error: jsonString of a verified envelope
\* of a 200 answer, "" on every return with an error
SendPayload(resp) ==
    IF resp # NetError /\ resp.StatusCode = 200 /\ resp.body # "garbage"
       /\ VerifyResponse(resp)
    THEN "jsonString" ELSE ""

\* the error Get returns for a response (lines 430-463): the same checks
GetError(resp) ==
    IF resp = NetError THEN <<"NETWORK ERROR: ", "connection refused">>
    ELSE IF resp.StatusCode # 200 THEN <<"Received bad status: ">> \o resp.Status
    ELSE IF resp.body = "garbage"
         THEN <<"Unable to unmarshal payload map: ", "invalid character">>
    ELSE IF VerifyResponse(resp) THEN NoError
    ELSE <<"unable to verify response signature">>

\* the payload Get returns with that error
GetPayload(resp) ==
    IF resp # NetError /\ resp.StatusCode = 200 /\ resp.body # "garbage"
       /\ VerifyResponse(resp)
    THEN "jsonString" ELSE ""

\* a request handed to httpClient.Do: the goroutine, the URL and the proxy of
\* the transport at that moment
Request(by, url, uri) ==
    [by |-> by, url |-> <<url, uri>>, proxy |-> sender.transportProxy]

\* the uuids the controller hands out at registration, and the verified
\* payloads of a registration reply: not a JSON map, a map without uuid, or a
\* map with one
ClientUUIDs == {"c1"}
Registrations == {"notjson", "nouuid"} \cup ClientUUIDs

\* main past Bootstrap and VerifyBinary, its goroutines started
Booted == [pc |-> "done", UUID |-> "c1", keyUUID |-> "c1"]

\* the goroutines of an online agent run: main has started them
Online == agentUp /\ ~mode.Offline /\ boot.pc = "done"

\* rowIds, batch: the rowids popped, and the same in the order of the batch;
\* resp, err, payload: the response to the POST and what Send returned for it
\* msgs, batch: outMsgs and rowIds of MessageQueueSelectURI; sleep: the wait the
\* cycle ends with; vacuum: the cycle called Vacuum before that wait
DrainerIdle == [pc |-> "idle", rowIds |-> {}, batch |-> <<>>, msgs |-> <<>>,
                proxy |-> "", resp |-> NetError, err |-> NoError, payload |-> "",
                sleep |-> "", vacuum |-> FALSE]
\* op: "Get" (the hello request) or "GetResource" (the new configuration);
\* ci, ph, pi: the controller, the step ("default", "none", "list") and the
\* proxy of the list that UpdateConnection has come to; old: the pair
\* pinned when UpdateConnection was called; req: the pair the conntest request
\* in flight was issued with; tested: the pair of the conntest that succeeded
\* reqConfig: the required_config that GetResource is fetching
\* err: the error of the request that has just returned, until the loop
\* takes its next step
CheckinIdle == [pc |-> "idle", op |-> "", proxy |-> "", ci |-> 0, ph |-> "",
                pi |-> 0, old |-> <<>>, req |-> <<>>, tested |-> <<>>,
                reqConfig |-> "", err |-> NoError]

\* client.ConfigHash, the SHA-256 of the configuration file read at start, and
\* the hashes a check-in reply can announce
NoExit == -1
ConfigHash == "abc"
Hashes == {"abc", "ABC", "def"}

\* EqualFold comparing the bytes as they are
EqualFold_exact(a, b) == a = b

\* strings.EqualFold on the hashes of the model: equal under case folding
Fold(h) == IF h = "ABC" THEN "abc" ELSE h
EqualFold(a, b) == Fold(a) = Fold(b)

\* the verified payloads of a check-in reply: not a JSON map of strings, or
\* such a map without or with the key required_config
NoKey == "<none>"
Hellos == {[json |-> FALSE, required_config |-> NoKey]}
            \cup [json : {TRUE}, required_config : Hashes \cup {NoKey}]

\* lines 506-515: the reply parses, has required_config and it is not the
\* local hash
NewConfigRequired(hello) ==
    /\ hello.json
    /\ hello.required_config # NoKey
    /\ ~EqualFold(ConfigHash, hello.required_config)

\* the verified payloads of a resource reply: not a JSON map of strings, a
\* content that is not base64, or the encoded resource
Resources == {"notjson", "notbase64", "base64"}
OldConfig == "config"
Resource == "resource"

\* GetResource, lines 223-241: the error it returns
GetResourceError(resp, res) ==
    IF SendError(resp) # NoError THEN SendError(resp)
    ELSE IF res = "notjson" THEN <<"invalid character">>
    ELSE IF res = "notbase64" THEN <<"illegal base64 data">>
    ELSE NoError

\* GetResource: the bytes it returns, []byte("") with every error
GetResourceBytes(resp, res) ==
    IF GetResourceError(resp, res) = NoError THEN Resource ELSE ""

\* ioutil.WriteFile: the file after the call; it truncates the file before it
\* writes, so that a call that fails can leave a part of the bytes
WriteOutcomes == {"ok", "denied", "short"}
WriteFile(file, bytes, w) ==
    IF w = "ok" THEN bytes
    ELSE IF w = "short" THEN "part of " \o bytes
    ELSE file


(***************************************************************************)
(* Plugin.VerifyHashes.                                                    *)
(***************************************************************************)
\* a resource file on disk: absent (or not readable), or one of two contents
Files == {"missing", "f1", "f2"}
\* the Hash of a ResourceFile of the configuration: the SHA-256 of f1 in lower
\* or upper case, that of f2, or "" (no Hash given in the YAML)
WantedHashes == {"abc", "ABC", "def", ""}
\* what GetResource brings back: an error, or the content it decoded
Downloads == {"error", "f1", "f2"}

NoVerify == [pc |-> "none", i |-> 0, want |-> <<>>, disk |-> <<>>]

\* client.GetSHA256: hex.EncodeToString of the digest, "" with an error
GetSHA256(file) ==
    IF file = "missing" THEN "" ELSE IF file = "f1" THEN "abc" ELSE "def"

\* line 157 and line 194: strings.ToLower(hash) != strings.ToLower(want)
Mismatch(hash, want) == Fold(hash) # Fold(want)

\* lines 142-201: MkdirAll of the working directory before the first file, then
\* one round of the loop over p.ResourceFiles; pc "false" and "true" are the
\* two returns
VerifyFile ==
    /\ verify.pc = "loop"
    /\ LET i == verify.i
           want == verify.want[i]
           hash == GetSHA256(verify.disk[i])
           Next_i == [verify EXCEPT !.i = i + 1,
                                    !.pc = IF i = ResourceCount THEN "true"
                                                                ELSE "loop"]
           False == [verify EXCEPT !.pc = "false"]
       IN  \/ \* os.MkdirAll(wd) failed
              /\ i = 1
              /\ verify' = False
           \/ /\ ~Mismatch(hash, want)
              /\ verify' = Next_i
           \/ /\ Mismatch(hash, want)
              /\ IF mode.Offline
                 THEN verify' = False
                 ELSE \E dl \in Downloads :
                        IF dl = "error"
                        THEN verify' = False
                        ELSE \/ \* MkdirAll(fileDir) failed
                                verify' = False
                             \/ \E w \in WriteOutcomes :
                                  LET file == IF w = "ok" THEN dl
                                              ELSE IF w = "short" THEN "f2"
                                              ELSE verify.disk[i]
                                      written == [verify EXCEPT !.disk[i] = file]
                                  IN  IF w # "ok" \/ Mismatch(GetSHA256(file), want)
                                      THEN verify' = [written EXCEPT !.pc = "false"]
                                      ELSE verify' = [written EXCEPT
                                                        !.i = i + 1,
                                                        !.pc = IF i = ResourceCount
                                                               THEN "true"
                                                               ELSE "loop"]
    /\ UNCHANGED <<supVars, commsVars, throttle, queue>>

\* LaunchBinary, lines 217-264, with the result of VerifyHashes: SetError
\* "unable to verify hashes" exactly when the agent is not in debug mode and
\* VerifyHashes returned false
LaunchVerified(t) ==
    /\ verify.pc \in {"true", "false", "skip"}
    /\ LaunchStart(t)
    /\ (plugins'[tasks[t].p.UUID].StatusMessage = "unable to verify hashes")
          <=> (~mode.Debug /\ verify.pc = "false")

(***************************************************************************)
(* Producers of the queue.                                                 *)
(***************************************************************************)
\* a plugin task queues a pluginlog message (UpdateStatus, QueuePluginLog)
Push ==
    /\ Online /\ pushed < MaxPush
    /\ pushed' = pushed + 1
    /\ queue' = MessageQueueInsert(queue, "pluginlog", PLUGINLOG)
    /\ UNCHANGED <<supVars, throttle, verify, boot, os, sender, mutex, inflight, drainer, checkin>>

(***************************************************************************)
(* The Queue Drainer: MessageQueueManager.                                 *)
(***************************************************************************)
\* lines 17-27: pop a batch; an empty queue is slept over
DrainerPop ==
    /\ Online /\ drainer.pc = "idle"
    /\ LET rows == MessageQueueSelectURI(queue, PLUGINLOG)
           \* lines 547-552: a payload is kept when it is not "", a rowid when
           \* it is not 0
           withMsg == SelectSeq(rows, LAMBDA r : r.post_string # "")
           withId == SelectSeq(rows, LAMBDA r : r.rowid # 0)
           messages == [i \in 1..Len(withMsg) |-> withMsg[i].post_string]
       IN  IF Len(messages) = 0
           THEN \* lines 22-26: Vacuum, time.Sleep(client.PollTime), continue
                drainer' = [DrainerIdle EXCEPT !.pc = "sleep",
                                               !.sleep = "PollTime",
                                               !.vacuum = TRUE]
           ELSE drainer' = [DrainerIdle EXCEPT
                              !.pc = "lock",
                              !.rowIds = RowIds(withId),
                              !.batch = [i \in 1..Len(withId) |-> withId[i].rowid],
                              !.msgs = messages]
    /\ UNCHANGED <<supVars, throttle, verify, boot, os, queue, sender, mutex, inflight, checkin, pushed>>

\* Send, lines 139-158: s.mutex.Lock(), then s.Proxy is read
DrainerLock ==
    /\ Online /\ drainer.pc = "lock"
    /\ mutex = ""
    /\ mutex' = "drainer"
    /\ drainer' = [drainer EXCEPT !.pc = "proxy", !.proxy = sender.Proxy]
    /\ UNCHANGED <<supVars, throttle, verify, boot, os, queue, sender, inflight, checkin, pushed>>

\* Send, lines 158-164: s.transport.Proxy is written
DrainerSetProxy ==
    /\ Online /\ drainer.pc = "proxy"
    /\ sender' = [sender EXCEPT !.transportProxy = TransportProxy(drainer.proxy)]
    /\ drainer' = [drainer EXCEPT !.pc = "do"]
    /\ UNCHANGED <<supVars, throttle, verify, boot, os, queue, mutex, inflight, checkin, pushed>>

\* Send, lines 167-179: the request is built and handed to httpClient.Do
DrainerDo ==
    /\ Online /\ drainer.pc = "do"
    /\ inflight' = inflight \cup {Request("drainer", Trim(sender.ControllerURL),
                                          PLUGINLOG)}
    /\ drainer' = [drainer EXCEPT !.pc = "flight"]
    /\ UNCHANGED <<supVars, throttle, verify, boot, os, queue, sender, mutex, checkin, pushed>>

\* Send returns (the deferred Unlock runs) with the error of the response
DrainerReturn ==
    /\ Online /\ drainer.pc = "flight"
    /\ \E resp \in Responses :
         drainer' = [drainer EXCEPT !.pc = "handle", !.resp = resp,
                                    !.err = SendError(resp),
                                    !.payload = SendPayload(resp)]
    /\ inflight' = { r \in inflight : r.by # "drainer" }
    /\ mutex' = ""
    /\ UNCHANGED <<supVars, throttle, verify, boot, os, queue, sender, checkin, pushed>>

\* lines 47-72: the batch is deleted after a success and after an error whose
\* text contains one of the two status texts
Deletes(err) ==
    \/ err = NoError
    \/ Contains(err, <<"500", "Internal Server Error">>)
    \/ Contains(err, <<"400", "Bad Request">>)

\* SleepAfter waiting PollTime after every cycle
SleepAfter_pollTime(n) == "PollTime"

\* lines 74-80: the wait after a cycle with n messages, a full batch or not
SleepAfter(n) == IF n >= BatchLimit THEN "second" ELSE "PollTime"

DrainerHandle ==
    /\ Online /\ drainer.pc = "handle"
    /\ queue' = IF Deletes(drainer.err)
                THEN MessageQueueDelete(queue, drainer.rowIds) ELSE queue
    /\ LET sleep == SleepAfter(Len(drainer.msgs))
       IN  drainer' = [DrainerIdle EXCEPT !.pc = "sleep", !.sleep = sleep,
                                          !.vacuum = (sleep = "PollTime")]
    /\ UNCHANGED <<supVars, throttle, verify, boot, os, sender, mutex, inflight, checkin, pushed>>

\* time.Sleep is over: the next round of the loop
DrainerWake ==
    /\ Online /\ drainer.pc = "sleep"
    /\ drainer' = DrainerIdle
    /\ UNCHANGED <<supVars, throttle, verify, boot, os, queue, sender, mutex, inflight, checkin, pushed>>

(***************************************************************************)
(* The Checkin loop: CheckinManager, with Sender.Get, Sender.GetResource,  *)
(* Sender.UpdateConnection and Sender.TestConnection.                      *)
(***************************************************************************)
\* Get, lines 404-411, or Send for GetResource: s.mutex.Lock(), s.Proxy read
CheckinLock ==
    /\ Online /\ checkin.pc = "lock"
    /\ mutex = ""
    /\ mutex' = "checkin"
    /\ checkin' = [checkin EXCEPT !.pc = "proxy", !.proxy = sender.Proxy,
                                  !.err = NoError]
    /\ UNCHANGED <<supVars, throttle, verify, boot, os, queue, sender, inflight, drainer, pushed>>

CheckinSetProxy ==
    /\ Online /\ checkin.pc = "proxy"
    /\ sender' = [sender EXCEPT !.transportProxy = TransportProxy(checkin.proxy)]
    /\ checkin' = [checkin EXCEPT !.pc = "do"]
    /\ UNCHANGED <<supVars, throttle, verify, boot, os, queue, mutex, inflight, drainer, pushed>>

CheckinDo ==
    /\ Online /\ checkin.pc = "do"
    /\ inflight' = inflight \cup
         {Request("checkin", Trim(sender.ControllerURL),
                  IF checkin.op = "Get" THEN "/core/hello/" ELSE "/core/resource/")}
    /\ checkin' = [checkin EXCEPT !.pc = "flight"]
    /\ UNCHANGED <<supVars, throttle, verify, boot, os, queue, sender, mutex, drainer, pushed>>

\* UpdateConnection, lines 305-310: the pair is saved, the first controller set
UpdateConnectionStart ==
    [CheckinIdle EXCEPT !.pc = "tproxy", !.ci = 1, !.ph = "default",
                        !.old = <<sender.ControllerURL, sender.Proxy>>]

\* os.Exit(0): the agent process is gone, and its goroutines with it
Exited ==
    /\ agentUp' = FALSE
    /\ mutex' = ""
    /\ inflight' = {}
    /\ drainer' = DrainerIdle
    /\ checkin' = CheckinIdle
    /\ UNCHANGED <<config, manager, mode, restarts, plugins, procs, now, realExit,
                   sup, tasks, throttlers, sender, throttle, verify, boot>>

\* Get or GetResource returns to CheckinManager, lines 492-541
CheckinReturn ==
    /\ Online /\ checkin.pc = "flight"
    /\ \E resp \in Responses :
         IF checkin.op = "Get" /\ GetError(resp) # NoError
         THEN \* line 496: UpdateConnection
              /\ checkin' = [UpdateConnectionStart EXCEPT !.err = GetError(resp)]
              /\ sender' = [sender EXCEPT !.ControllerURL = ControllerList[1]]
              /\ inflight' = { r \in inflight : r.by # "checkin" }
              /\ mutex' = ""
              /\ UNCHANGED <<supVars, throttle, verify, boot, os, drainer>>
         ELSE IF checkin.op = "Get"
         THEN \E hello \in Hellos :
              \* line 519: GetResource(reqConfig), or lines 508-509, 540:
              \* time.Sleep(client.PollTime), then the next round
              /\ checkin' = IF NewConfigRequired(hello)
                            THEN [CheckinIdle EXCEPT
                                    !.pc = "lock", !.op = "GetResource",
                                    !.reqConfig = hello.required_config]
                            ELSE [CheckinIdle EXCEPT !.pc = "lock", !.op = "Get"]
              /\ inflight' = { r \in inflight : r.by # "checkin" }
              /\ mutex' = ""
              /\ UNCHANGED <<supVars, throttle, verify, boot, os, sender, drainer>>
         ELSE \E res \in Resources, w \in WriteOutcomes :
              LET err == GetResourceError(resp, res)
                  file == WriteFile(os.configFile, GetResourceBytes(resp, res), w)
              IN  IF err = NoError /\ w = "ok"
                  THEN \* lines 527-536: the file is overwritten, os.Exit(0)
                       /\ os' = [configFile |-> file, exitCode |-> 0]
                       /\ Exited
                  ELSE \* lines 520-524, 528-531: time.Sleep, then the next
                       \* round; the file is written to when the fetch succeeded
                       /\ os' = IF err = NoError
                                THEN [os EXCEPT !.configFile = file] ELSE os
                       /\ checkin' = [CheckinIdle EXCEPT !.pc = "lock", !.op = "Get",
                                                         !.err = err]
                       /\ inflight' = { r \in inflight : r.by # "checkin" }
                       /\ mutex' = ""
                       /\ UNCHANGED <<supVars, throttle, verify, boot, sender, drainer>>
    /\ UNCHANGED <<queue, pushed>>

\* TestConnection, lines 351-360: s.transport.Proxy is written from s.Proxy and
\* s.ControllerURL is trimmed; no mutex is taken
TestSetProxy ==
    /\ Online /\ checkin.pc = "tproxy"
    /\ sender' = [sender EXCEPT !.transportProxy = TransportProxy(sender.Proxy),
                                !.ControllerURL = TrimSuffix(sender.ControllerURL)]
    /\ checkin' = [checkin EXCEPT !.pc = "tdo", !.err = NoError]
    /\ UNCHANGED <<supVars, throttle, verify, boot, os, queue, mutex, inflight, drainer, pushed>>

\* TestConnection, lines 361-370: the conntest request is handed to httpClient.Do
TestDo ==
    /\ Online /\ checkin.pc = "tdo"
    /\ inflight' = inflight \cup {Request("checkin", sender.ControllerURL,
                                          "/core/conntest/")}
    /\ checkin' = [checkin EXCEPT !.pc = "tflight",
                                  !.req = <<sender.ControllerURL, sender.transportProxy>>]
    /\ UNCHANGED <<supVars, throttle, verify, boot, os, queue, sender, mutex, drainer, pushed>>

\* UpdateConnection after a failed test: the next pair to test, or none
\* lines 320-322: no proxy, when the proxy tested was one
TryNoProxy == checkin.ph = "default" /\ TransportProxy(sender.Proxy) # ""
\* lines 330-331: the next proxy of the list
NextProxyIndex == checkin.pi + 1

\* TestConnection returns to UpdateConnection, lines 314-343
TestReturn ==
    /\ Online /\ checkin.pc = "tflight"
    /\ inflight' = { r \in inflight : r.by # "checkin" }
    /\ \E ok \in BOOLEAN :
         IF ok
         THEN \* return true
              /\ checkin' = [checkin EXCEPT !.pc = "returned", !.tested = checkin.req]
              /\ sender' = sender
         ELSE IF TryNoProxy
         THEN /\ checkin' = [checkin EXCEPT !.pc = "tproxy", !.ph = "none"]
              /\ sender' = [sender EXCEPT !.Proxy = ""]
         ELSE IF NextProxyIndex <= Len(ProxyList)
         THEN /\ checkin' = [checkin EXCEPT !.pc = "tproxy", !.ph = "list",
                                            !.pi = NextProxyIndex]
              /\ sender' = [sender EXCEPT !.Proxy = ProxyList[NextProxyIndex]]
         ELSE IF checkin.ci < Len(ControllerList)
         THEN /\ checkin' = [checkin EXCEPT !.pc = "tproxy", !.ph = "default",
                                            !.pi = 0, !.ci = checkin.ci + 1]
              /\ sender' = [sender EXCEPT
                              !.ControllerURL = ControllerList[checkin.ci + 1]]
         ELSE \* lines 341-343: the old settings, return false
              /\ checkin' = [checkin EXCEPT !.pc = "returned"]
              /\ sender' = [sender EXCEPT !.Proxy = checkin.old[2],
                                          !.ControllerURL = checkin.old[1]]
    /\ UNCHANGED <<supVars, throttle, verify, boot, os, queue, mutex, drainer, pushed>>

\* lines 497-498: time.Sleep(client.PollTime), then the next round
CheckinSleep ==
    /\ Online /\ checkin.pc = "returned"
    /\ checkin' = [CheckinIdle EXCEPT !.pc = "lock", !.op = "Get"]
    /\ UNCHANGED <<supVars, throttle, verify, boot, os, queue, sender, mutex, inflight, drainer, pushed>>

\* agent -o: offline, file hashes still verified
OfflineMode == [Debug |-> FALSE, Offline |-> TRUE]

(***************************************************************************)
(* The Throttler: MonitorCpu and Throttle.ThrottleCpu (plugins_darwin.go), *)
(* with the child it throttles and the Launch task that started it.        *)
(***************************************************************************)
\* runtime.NumCPU() of the host and the process's CPU percentages that
\* Process.Percent reports
NumCPU == 1
Percents == {0, 50, 100}
\* p.CPULimit of the plugin, the TargetCpu of the Throttle
TargetCpus == {50, 100}

\* pc: where MonitorCpu is ("select", "suspended": in the Sleep of ThrottleCpu
\* between Suspend and Resume, "sleep": in the Sleep of 200 ms, "returned");
\* sleepDuration: t.sleepDuration in microseconds; lastOp: the last signal
\* the Throttler sent to the child; child: the child process ("running",
\* "stopped" by a suspend, "dead"); owner: the task that started the
\* Throttler ("wait": in cmd.Wait, "quit": in quit <- 0, "done": past it)
NoThrottle == [pc |-> "none", TargetCpu |-> 0, sleepDuration |-> 0,
               lastOp |-> "none", child |-> "dead", owner |-> "done"]

\* Millisecond, in the unit of sleepDuration
Millisecond == 1000

\* ThrottleCpu, lines 72-91: the new t.sleepDuration for the percentage read;
\* currentCpu is percent / NumCPU, 1.0 when that is 0, times 1.2, and the
\* ratio is currentCpu / TargetCpu
SleepDuration(t, percent) ==
    LET sd == IF t.sleepDuration = 0 THEN Millisecond ELSE t.sleepDuration
    IN  IF percent = 0
        THEN ((sd + Millisecond) * 12) \div (10 * t.TargetCpu)
        ELSE ((sd + Millisecond) * 12 * percent) \div (10 * NumCPU * t.TargetCpu)

\* Process.Resume left out
Resume_skipped(t) == t

\* Process.Suspend and Process.Resume: the signal is sent; a stopped child
\* runs again
Suspend(t) ==
    [t EXCEPT !.child = IF @ = "running" THEN "stopped" ELSE @,
              !.lastOp = "suspend"]
Resume(t) ==
    [t EXCEPT !.child = IF @ = "stopped" THEN "running" ELSE @,
              !.lastOp = "resume"]

\* MonitorCpu, lines 40-42: the quit message is there; the send of the owner
\* (plugins.go:291) and the receive complete together
MonitorQuit ==
    /\ throttle.pc = "select" /\ throttle.owner = "quit"
    /\ throttle' = [throttle EXCEPT !.pc = "returned", !.owner = "done"]
    /\ UNCHANGED <<supVars, commsVars, verify, queue>>

\* MonitorCpu, lines 43-44 and ThrottleCpu, lines 64-98: no quit message, so
\* ThrottleCpu is called; it returns on an error of Percent or Suspend, which
\* a child that has exited can give, and sleeps after a suspend
ThrottleSuspend ==
    /\ throttle.pc = "select" /\ throttle.owner # "quit"
    /\ \E percent \in Percents, gone \in BOOLEAN :
         LET t == [throttle EXCEPT !.sleepDuration = SleepDuration(throttle, percent)]
         IN  /\ gone => throttle.child = "dead"
             /\ \/ \* lines 77-80: Percent fails
                   /\ gone
                   /\ throttle' = [throttle EXCEPT
                                     !.pc = "sleep",
                                     !.sleepDuration =
                                         IF @ = 0 THEN Millisecond ELSE @]
                \/ \* lines 96-98: Suspend fails
                   /\ gone /\ t.sleepDuration <= MaxSleep
                   /\ throttle' = [t EXCEPT !.pc = "sleep"]
                \/ \* line 99: suspended, time.Sleep(t.sleepDuration)
                   /\ ~gone /\ t.sleepDuration <= MaxSleep
                   /\ throttle' = [Suspend(t) EXCEPT !.pc = "suspended"]
    /\ UNCHANGED <<supVars, commsVars, verify, queue>>

\* ThrottleCpu, lines 100-104, and MonitorCpu, line 45: the sleep is over, the
\* child is resumed, time.Sleep(200 ms)
ThrottleResume ==
    /\ throttle.pc = "suspended"
    /\ throttle' = [Resume(throttle) EXCEPT !.pc = "sleep"]
    /\ UNCHANGED <<supVars, commsVars, verify, queue>>

\* MonitorCpu, line 45: the 200 ms are over, back to the select
MonitorWake ==
    /\ throttle.pc = "sleep"
    /\ throttle' = [throttle EXCEPT !.pc = "select"]
    /\ UNCHANGED <<supVars, commsVars, verify, queue>>

\* the child exits, or is killed while it is stopped
ChildExit ==
    /\ throttle.pc # "none" /\ throttle.child # "dead"
    /\ throttle' = [throttle EXCEPT !.child = "dead"]
    /\ UNCHANGED <<supVars, commsVars, verify, queue>>

\* LaunchBinary, lines 287-291: cmd.Wait returns, quit <- 0 starts
OwnerQuit ==
    /\ throttle.owner = "wait" /\ throttle.child = "dead"
    /\ throttle' = [throttle EXCEPT !.owner = "quit"]
    /\ UNCHANGED <<supVars, commsVars, verify, queue>>


(***************************************************************************)
(* The Throttler of plugins_windows.go. Durations are in milliseconds.     *)
(***************************************************************************)
\* the Systemtime fields that ThrottleCpu adds up (Hour, Minute, Second,
\* Milliseconds) are those of a time of day: 24 h in milliseconds
DayMs == 86400000
\* MonitorCpu: sleepDuration: (time.Millisecond * 10)
WindowsInitialSleep == 10
\* time.Sleep(time.Millisecond * 200) of MonitorCpu
MonitorSleepMs == 200
\* CPU time a process can use up between two calls of ThrottleCpu
CpuDeltas == {0, 100, 200}

\* lines 78-85: currProcTime for a process that has used t ms of CPU time (all
\* of it user time): FileTimeToSystemTime turns the time into a date and a
\* time of day, and the code adds up the fields of the time of day
ProcTime(t) == t % DayMs

\* lines 94-103: time.Duration((float64(sleepDuration + Millisecond)) * ratio)
\* with ratio = 1.2 * cpuPercent / TargetCpu and cpuPercent = dProc / dTick *
\* 100 / NumCPU, truncated toward zero; for dProc < 0 the quotients are taken
\* before the products, which would leave the integers of the model
WindowsSleepDuration(sd, dProc, dTick, target) ==
    IF dProc >= 0
    THEN ((sd + 1) * 12 * 100 * dProc) \div (10 * dTick * NumCPU * target)
    ELSE 0 - (((sd + 1) * 12
               * ((((0 - dProc) \div dTick) * 100) \div (NumCPU * target)))
              \div 10)

\* one call of ThrottleCpu (lines 44-114) after the wait of MonitorCpu: since
\* the last call the process was suspended for sleepDuration and then ran for
\* 200 ms, using d ms of CPU time
WindowsThrottleCpu ==
    /\ throttle.pc = "windows"
    /\ throttle.ticks < MaxTicks
    /\ throttle.sleepDuration >= 0
    /\ \E d \in CpuDeltas :
         LET cpuTime == throttle.cpuTime + d
             currProcTime == ProcTime(cpuTime)
             currTickCount == throttle.tickCount + throttle.sleepDuration
                                 + MonitorSleepMs
         IN  throttle' =
               [throttle EXCEPT
                  !.cpuTime = cpuTime,
                  !.tickCount = currTickCount,
                  !.ticks = @ + 1,
                  !.sleepDuration =
                      IF throttle.prevProcTime # 0
                      THEN WindowsSleepDuration(
                               @, currProcTime - throttle.prevProcTime,
                               currTickCount - throttle.prevTickCount,
                               throttle.TargetCpu)
                      ELSE @,
                  !.prevProcTime = currProcTime,
                  !.prevTickCount = currTickCount]
    /\ UNCHANGED <<supVars, commsVars, verify, queue>>

\* the Transport and its users in an offline agent: none of them runs
CommsIdle ==
    /\ sender = [ControllerURL |-> ControllerList[1], Proxy |-> ProxyList[1],
                 transportProxy |-> ""]
    /\ mutex = ""
    /\ inflight = {}
    /\ drainer = DrainerIdle
    /\ checkin = CheckinIdle
    /\ pushed = 0
    /\ os = [configFile |-> OldConfig, exitCode |-> NoExit]
    /\ throttle = NoThrottle
    /\ boot = Booted
    /\ verify = NoVerify

\* a fresh install: an empty database, no plugin process
Init ==
    /\ config \in Configs
    /\ manager = 101
    /\ mode = OfflineMode
    /\ agentUp = TRUE
    /\ restarts = 0
    /\ plugins = [u \in UUIDs |-> ZeroPlugin]
    /\ queue = <<>>
    /\ procs = [pid \in PIDs |-> NoProc]
    /\ now = StartTime
    /\ realExit = [u \in UUIDs |-> ZeroTime]
    /\ sup = SupStart(config)
    /\ tasks = [t \in TaskIds |-> NoTask]
    /\ throttlers = {}
    /\ CommsIdle

Next ==
    \/ SupWake
    \/ SupRead
    \/ SupDecide
    \/ SupWait
    \/ SupGC
    \/ \E t \in TaskIds : LaunchStart(t)
    \/ \E t \in TaskIds : LaunchPriority(t)
    \/ \E t \in TaskIds : LaunchFinish(t)
    \/ \E t \in TaskIds : AdoptStart(t)
    \/ \E t \in TaskIds : AdoptPoll(t)
    \/ \E t \in TaskIds : AdoptFinish(t)
    \/ \E t \in TaskIds : TaskDefer(t)
    \/ \E pid \in PIDs : ProcExit(pid)
    \/ \E pid \in PIDs : ForeignSpawn(pid)
    \/ Restart

Spec == Init /\ [][Next]_vars

\* the periodic plugin, with the clock running
InitPeriodic ==
    /\ config \in PeriodicConfigs
    /\ manager = 101
    /\ mode = OfflineMode
    /\ agentUp = TRUE
    /\ restarts = 0
    /\ plugins = [u \in UUIDs |-> ZeroPlugin]
    /\ queue = <<>>
    /\ procs = [pid \in PIDs |-> NoProc]
    /\ now = StartTime
    /\ realExit = [u \in UUIDs |-> ZeroTime]
    /\ sup = SupStart(config)
    /\ tasks = [t \in TaskIds |-> NoTask]
    /\ throttlers = {}
    /\ CommsIdle

NextPeriodic == Next \/ Tick

SpecPeriodic == InitPeriodic /\ [][NextPeriodic]_vars

\* the goroutines are scheduled: a Supervisor that can receive does, a task that
\* has been started runs to its first signal, a send that can complete does
Fairness ==
    /\ WF_vars(SupWait)
    /\ \A t \in TaskIds : /\ WF_vars(LaunchStart(t))
                          /\ WF_vars(AdoptStart(t))
                          /\ WF_vars(TaskDefer(t))
                          /\ WF_vars(LaunchFinish(t))

SpecFair == Init /\ [][Next]_vars /\ Fairness

(***************************************************************************)
(* The main goroutine: Client.Bootstrap from the registration loop on, and *)
(* the start of the goroutines in main.                                    *)
(***************************************************************************)
\* Registered proceeding with whatever the reply holds
Registered_anyReply(b, reply) ==
    [b EXCEPT !.pc = "verify",
              !.UUID = IF reply \in ClientUUIDs THEN reply ELSE "",
              !.keyUUID = IF reply \in ClientUUIDs THEN reply ELSE ""]

\* client.go:208-219: client.UUID = respMap["uuid"]; without a uuid the loop
\* sleeps and goes on, with one KeyStoreWriteOut stores it and the loop ends
Registered(b, reply) ==
    IF reply \in ClientUUIDs
    THEN [b EXCEPT !.pc = "verify", !.UUID = reply, !.keyUUID = reply]
    ELSE [b EXCEPT !.pc = "sleep"]

\* UpdateConnection run by main alone: the Sender after it, for every outcome
\* of its conntests; the pairs are tested in the order of lines 309-337, and
\* after the last one the old pair is set back
UpdateConnectionResults(s) ==
    LET Tried(p) == <<p>> \o (IF TransportProxy(p) # "" THEN <<"">> ELSE <<>>)
                         \o ProxyList
        first == Tried(s.Proxy)
        carried == first[Len(first)]
        pairs == { <<ControllerList[1], first[i]>> : i \in DOMAIN first }
                 \cup { <<ControllerList[k], Tried(carried)[i]>> :
                          k \in 2..Len(ControllerList), i \in DOMAIN Tried(carried) }
    IN  { [ControllerURL |-> TrimSuffix(pr[1]), Proxy |-> pr[2],
           transportProxy |-> TransportProxy(pr[2])] : pr \in pairs }
        \cup { [s EXCEPT !.transportProxy = TransportProxy(carried)] }

\* client.go:183-205 and Send, lines 131-179: the registration message is
\* POSTed to /core/register/
BootSend ==
    /\ agentUp /\ ~mode.Offline /\ boot.pc = "register"
    /\ mutex = ""
    /\ mutex' = "main"
    /\ sender' = [sender EXCEPT !.transportProxy = TransportProxy(sender.Proxy)]
    /\ inflight' = inflight \cup
         {[by |-> "main", url |-> <<Trim(sender.ControllerURL), "/core/register/">>,
           proxy |-> TransportProxy(sender.Proxy)]}
    /\ boot' = [boot EXCEPT !.pc = "flight"]
    /\ UNCHANGED <<supVars, throttle, verify, os, queue, drainer, checkin, pushed>>

\* client.go:205-219: Send returns
BootReturn ==
    /\ agentUp /\ ~mode.Offline /\ boot.pc = "flight"
    /\ mutex' = ""
    /\ inflight' = { r \in inflight : r.by # "main" }
    /\ \E resp \in Responses :
         IF SendError(resp) # NoError
         THEN boot' = [boot EXCEPT !.pc = "update"]
         ELSE \E reply \in Registrations : boot' = Registered(boot, reply)
    /\ UNCHANGED <<supVars, throttle, verify, os, queue, sender, drainer, checkin, pushed>>

\* client.go:206-209: UpdateConnection after an error of Send
BootUpdateConnection ==
    /\ agentUp /\ ~mode.Offline /\ boot.pc = "update"
    /\ sender' \in UpdateConnectionResults(sender)
    /\ boot' = [boot EXCEPT !.pc = "sleep"]
    /\ UNCHANGED <<supVars, throttle, verify, os, queue, mutex, inflight, drainer, checkin,
                   pushed>>

\* client.go:210, 215 and 181: time.Sleep(2 s); client.UUID is "", the next
\* round of the loop
BootSleep ==
    /\ agentUp /\ ~mode.Offline /\ boot.pc = "sleep"
    /\ boot' = [boot EXCEPT !.pc = "register"]
    /\ UNCHANGED <<supVars, throttle, verify, os, queue, sender, mutex, inflight, drainer,
                   checkin, pushed>>

\* main, lines 614-631: Bootstrap has returned, the binary is verified,
\* CheckinManager, MessageQueueManager and PluginManager are started
BootProceed ==
    /\ agentUp /\ ~mode.Offline /\ boot.pc = "verify"
    /\ boot' = [boot EXCEPT !.pc = "done"]
    /\ checkin' = [CheckinIdle EXCEPT !.pc = "lock", !.op = "Get"]
    /\ drainer' = DrainerIdle
    /\ UNCHANGED <<supVars, throttle, verify, os, queue, sender, mutex, inflight, pushed>>

\* agent: online, file hashes verified
OnlineMode == [Debug |-> FALSE, Offline |-> FALSE]

\* an online agent after Bootstrap, with no plugin in its configuration: the
\* Sender holds the first controller and the first proxy of the lists
InitComms ==
    /\ config = <<>>
    /\ manager = 101
    /\ mode = OnlineMode
    /\ agentUp = TRUE
    /\ restarts = 0
    /\ plugins = [u \in UUIDs |-> ZeroPlugin]
    /\ queue = <<>>
    /\ procs = [pid \in PIDs |-> NoProc]
    /\ now = StartTime
    /\ realExit = [u \in UUIDs |-> ZeroTime]
    /\ sup = SupStart(config)
    /\ tasks = [t \in TaskIds |-> NoTask]
    /\ throttlers = {}
    /\ sender = [ControllerURL |-> ControllerList[1], Proxy |-> ProxyList[1],
                 transportProxy |-> ""]
    /\ mutex = ""
    /\ inflight = {}
    /\ drainer = DrainerIdle
    /\ checkin = [CheckinIdle EXCEPT !.pc = "lock", !.op = "Get"]
    /\ pushed = 0
    /\ os = [configFile |-> OldConfig, exitCode |-> NoExit]
    /\ throttle = NoThrottle
    /\ boot = Booted
    /\ verify = NoVerify

NextComms ==
    \/ Push
    \/ DrainerPop
    \/ DrainerLock
    \/ DrainerSetProxy
    \/ DrainerDo
    \/ DrainerReturn
    \/ DrainerHandle
    \/ DrainerWake
    \/ CheckinLock
    \/ CheckinSetProxy
    \/ CheckinDo
    \/ CheckinReturn
    \/ TestSetProxy
    \/ TestDo
    \/ TestReturn
    \/ CheckinSleep

SpecComms == InitComms /\ [][NextComms]_vars

\* an online agent when Bootstrap has read the key store (client.go:122) and
\* made the Sender: with no uuid, or with the uuid of an earlier registration
InitBoot ==
    /\ config = <<>>
    /\ manager = 101
    /\ mode = OnlineMode
    /\ agentUp = TRUE
    /\ restarts = 0
    /\ plugins = [u \in UUIDs |-> ZeroPlugin]
    /\ queue = <<>>
    /\ procs = [pid \in PIDs |-> NoProc]
    /\ now = StartTime
    /\ realExit = [u \in UUIDs |-> ZeroTime]
    /\ sup = SupStart(config)
    /\ tasks = [t \in TaskIds |-> NoTask]
    /\ throttlers = {}
    /\ sender = [ControllerURL |-> ControllerList[1], Proxy |-> ProxyList[1],
                 transportProxy |-> ""]
    /\ mutex = ""
    /\ inflight = {}
    /\ drainer = DrainerIdle
    /\ checkin = CheckinIdle
    /\ pushed = 0
    /\ os = [configFile |-> OldConfig, exitCode |-> NoExit]
    /\ throttle = NoThrottle
    /\ boot \in { [pc |-> "register", UUID |-> "", keyUUID |-> ""] }
                 \cup { [pc |-> "verify", UUID |-> u, keyUUID |-> u] :
                          u \in ClientUUIDs }
    /\ verify = NoVerify

NextBoot ==
    \/ BootSend
    \/ BootReturn
    \/ BootUpdateConnection
    \/ BootSleep
    \/ BootProceed
    \/ NextComms

SpecBoot == InitBoot /\ [][NextBoot]_vars

\* the Supervisor and its tasks of an agent that is online and registered:
\* every UpdateStatus and QueuePluginLog queues its pluginlog message
InitOnline ==
    /\ config \in Configs
    /\ manager = 101
    /\ mode = OnlineMode
    /\ agentUp = TRUE
    /\ restarts = 0
    /\ plugins = [u \in UUIDs |-> ZeroPlugin]
    /\ queue = <<>>
    /\ procs = [pid \in PIDs |-> NoProc]
    /\ now = StartTime
    /\ realExit = [u \in UUIDs |-> ZeroTime]
    /\ sup = SupStart(config)
    /\ tasks = [t \in TaskIds |-> NoTask]
    /\ throttlers = {}
    /\ CommsIdle

\* the run is followed until MaxLogs pluginlog messages have been queued
NextOnline == MaxRowId(queue) < MaxLogs /\ Next

SpecOnline == InitOnline /\ [][NextOnline]_vars

\* a Launch task that the Supervisor has just started, at its call of
\* VerifyHashes (skipped in debug mode), for every content of the working
\* directory and every pair of hashes in the configuration
InitVerify ==
    /\ config = <<Persistent1>>
    /\ manager = 101
    /\ mode \in {OfflineMode, OnlineMode, [Debug |-> TRUE, Offline |-> TRUE]}
    /\ agentUp = TRUE
    /\ restarts = 0
    /\ plugins = [u \in UUIDs |-> ZeroPlugin]
    /\ queue = <<>>
    /\ procs = [pid \in PIDs |-> NoProc]
    /\ now = StartTime
    /\ realExit = [u \in UUIDs |-> ZeroTime]
    /\ sup = [pc |-> "wait", i |-> 1, p |-> ZeroPlugin, wait |-> 1]
    /\ tasks = [t \in TaskIds |-> IF t = 1 THEN NewTask("launch", Persistent1)
                                           ELSE NoTask]
    /\ throttlers = {}
    /\ sender = [ControllerURL |-> ControllerList[1], Proxy |-> ProxyList[1],
                 transportProxy |-> ""]
    /\ mutex = ""
    /\ inflight = {}
    /\ drainer = DrainerIdle
    /\ checkin = CheckinIdle
    /\ pushed = 0
    /\ os = [configFile |-> OldConfig, exitCode |-> NoExit]
    /\ throttle = NoThrottle
    /\ boot = Booted
    /\ \E want \in [1..ResourceCount -> WantedHashes],
          disk \in [1..ResourceCount -> Files] :
         verify = [pc |-> IF mode.Debug THEN "skip" ELSE "loop", i |-> 1,
                   want |-> want, disk |-> disk]

NextVerify ==
    \/ VerifyFile
    \/ \E t \in TaskIds : LaunchVerified(t)

SpecVerify == InitVerify /\ [][NextVerify]_vars

\* MonitorCpu of plugins_windows.go has made its Throttle, for a process that
\* has used little CPU time or nearly 24 h of it
InitThrottleWindows ==
    /\ config = <<>>
    /\ manager = 101
    /\ mode = OfflineMode
    /\ agentUp = TRUE
    /\ restarts = 0
    /\ plugins = [u \in UUIDs |-> ZeroPlugin]
    /\ queue = <<>>
    /\ procs = [pid \in PIDs |-> NoProc]
    /\ now = StartTime
    /\ realExit = [u \in UUIDs |-> ZeroTime]
    /\ sup = SupStart(config)
    /\ tasks = [t \in TaskIds |-> NoTask]
    /\ throttlers = {}
    /\ sender = [ControllerURL |-> ControllerList[1], Proxy |-> ProxyList[1],
                 transportProxy |-> ""]
    /\ mutex = ""
    /\ inflight = {}
    /\ drainer = DrainerIdle
    /\ checkin = CheckinIdle
    /\ pushed = 0
    /\ os = [configFile |-> OldConfig, exitCode |-> NoExit]
    /\ boot = Booted
    /\ verify = NoVerify
    /\ \E target \in TargetCpus, used \in {100, 3600000, DayMs - 300} :
         throttle = [pc |-> "windows", TargetCpu |-> target,
                     sleepDuration |-> WindowsInitialSleep,
                     prevProcTime |-> 0, prevTickCount |-> 0,
                     cpuTime |-> used, tickCount |-> 1000, ticks |-> 0]

SpecThrottleWindows == InitThrottleWindows /\ [][WindowsThrottleCpu]_vars

\* one Throttler from `go MonitorCpu` (plugins.go:276) on, with the child
\* running and the Launch task in cmd.Wait
InitThrottle ==
    /\ config = <<>>
    /\ manager = 101
    /\ mode = OfflineMode
    /\ agentUp = TRUE
    /\ restarts = 0
    /\ plugins = [u \in UUIDs |-> ZeroPlugin]
    /\ queue = <<>>
    /\ procs = [pid \in PIDs |-> NoProc]
    /\ now = StartTime
    /\ realExit = [u \in UUIDs |-> ZeroTime]
    /\ sup = SupStart(config)
    /\ tasks = [t \in TaskIds |-> NoTask]
    /\ throttlers = {}
    /\ sender = [ControllerURL |-> ControllerList[1], Proxy |-> ProxyList[1],
                 transportProxy |-> ""]
    /\ mutex = ""
    /\ inflight = {}
    /\ drainer = DrainerIdle
    /\ checkin = CheckinIdle
    /\ pushed = 0
    /\ os = [configFile |-> OldConfig, exitCode |-> NoExit]
    /\ boot = Booted
    /\ verify = NoVerify
    /\ \E target \in TargetCpus :
         throttle = [NoThrottle EXCEPT !.pc = "select", !.TargetCpu = target,
                                       !.child = "running", !.owner = "wait"]

NextThrottle ==
    \/ MonitorQuit
    \/ ThrottleSuspend
    \/ ThrottleResume
    \/ MonitorWake
    \/ ChildExit
    \/ OwnerQuit

SpecThrottle == InitThrottle /\ [][NextThrottle]_vars

(***************************************************************************)
(* Properties of the Store and the Supervisor (Spec, SpecPeriodic).        *)
(***************************************************************************)
\* a child process of plugin u is alive
ChildAlive(u) == \E pid \in PIDs : procs[pid].plugin = u

\* the Supervisor has just started a Launch task for the plugin of this pass
LaunchStarted ==
    /\ sup.pc = "wait"
    /\ tasks[sup.wait].kind = "launch" /\ tasks[sup.wait].pc = "start"
    /\ tasks[sup.wait].p.UUID = config[sup.i].UUID

\* C1: in every reachable state of the Store, every persisted plugin record
\* whose status is "running" has a process_id other than 0 and a process_name
\* other than "", whichever of the Launch task, the Adopt task, SetError and
\* the garbage collection wrote it.
C1_RunningHasProcess ==
    \A u \in UUIDs :
        plugins[u].Status = "running" =>
            plugins[u].ProcessID # 0 /\ plugins[u].ProcessName # ""

\* a record written "running" by an Adopt task after a restart, beside one
\* that the garbage collection or a Launch task has closed
C1_Witness ==
    /\ restarts > 0
    /\ \E u \in UUIDs : /\ plugins[u].Status = "running"
                        /\ plugins[u].StatusMessage = "resuming control"
                        /\ plugins[u].CurrentManager = manager

\* C4: a persistent plugin whose child process has died is launched again at
\* the first pass of the Supervisor after the death whose reads of the Store
\* succeed: that pass starts a Launch task for the plugin, whatever status the
\* record still shows.
C4_PersistentRelaunched ==
    [][ ( /\ SupDecide
          /\ config[sup.i].Mode = "persistent"
          /\ ~ChildAlive(config[sup.i].UUID)
          /\ sup' # SupContinue )
        => LaunchStarted' ]_vars

\* the relaunch of a persistent plugin whose child is dead while its record
\* still shows "running"
C4_Witness ==
    /\ LaunchStarted
    /\ config[sup.i].Mode = "persistent"
    /\ plugins[config[sup.i].UUID].Status = "running"
    /\ ~ChildAlive(config[sup.i].UUID)

\* C5: a periodic plugin is never launched again before last_exit +
\* launch_frequency: the Supervisor starts a Launch task for a periodic plugin
\* only when the plugin is not running and the clock is later than the time
\* its previous run exited plus launch_frequency, whether a Launch task or an
\* Adopt task supervised that run.
C5_PeriodicNotEarly ==
    [][ ( /\ SupDecide
          /\ config[sup.i].Mode = "periodic"
          /\ LaunchStarted' )
        => ( /\ ~ChildAlive(config[sup.i].UUID)
             /\ ( realExit[config[sup.i].UUID] # ZeroTime =>
                    now > realExit[config[sup.i].UUID]
                          + config[sup.i].LaunchFrequency ) ) ]_vars

\* C6: the Supervisor starts a Launch task for a one-shot plugin only when its
\* record has the empty status, or the status "error" with retry_failure set;
\* with "running", "complete", or "error" without retry_failure no pass
\* launches it, over any number of passes and restarts.
C6_OneshotLaunch ==
    [][ ( /\ SupDecide
          /\ config[sup.i].Mode = "oneshot"
          /\ sup'.pc = "wait" )
        => ( /\ LaunchStarted'
             /\ \/ plugins[config[sup.i].UUID].Status = ""
                \/ /\ plugins[config[sup.i].UUID].Status = "error"
                   /\ config[sup.i].RetryFailure ) ]_vars

\* a one-shot plugin with retry_failure launched again after an error, by an
\* agent that has been restarted
C6_Witness ==
    /\ LaunchStarted
    /\ config[sup.i].Mode = "oneshot"
    /\ config[sup.i].RetryFailure
    /\ plugins[config[sup.i].UUID].Status = "error"
    /\ restarts > 0

\* a step of an Adopt task
AdoptStep == \E t \in TaskIds : AdoptStart(t) \/ AdoptPoll(t) \/ AdoptFinish(t)

\* C7: an Adopt task never writes the status "complete" to the persisted
\* record of the plugin it adopted and never clears that record's process_id,
\* on any path from its start to its end.
C7_AdoptKeepsRecord ==
    [][ AdoptStep =>
          \A u \in UUIDs :
              /\ plugins'[u].Status = "complete" => plugins[u].Status = "complete"
              /\ plugins'[u].ProcessID = 0 => plugins[u].ProcessID = 0 ]_vars

\* an Adopt task has ended after the process it adopted went away: the record
\* still shows the adopted process as running
C7_Witness ==
    \E t \in TaskIds :
        /\ tasks[t].kind = "adopt" /\ tasks[t].pc = "defer"
        /\ \E u \in UUIDs : /\ plugins[u].Status = "running"
                            /\ plugins[u].StatusMessage = "resuming control"
                            /\ plugins[u].ProcessID # 0
                            /\ ~ChildAlive(u)

\* the records the garbage collection looks at: "running" and not configured
Orphans == NotFound(PluginSelectStatus(plugins, "running"))

\* the process recorded in record rp is alive under the recorded name
RecordedProcessLive(rp) ==
    /\ rp.ProcessID # 0
    /\ FindProcess(rp.ProcessID) # NoProc
    /\ FindProcess(rp.ProcessID).name = rp.ProcessName

\* C10: in the garbage collection, for every record with status "running"
\* whose uuid is absent from the configuration, the Supervisor kills the
\* process recorded in that record (its own process_id, and only if a live
\* process with that PID has the executable name stored in that record) and
\* marks the record "complete", "removed from configuration".
C10_GCKillsRecordedProcess ==
    [][ (SupGC /\ plugins' # plugins) =>
          /\ \A rp \in Orphans :
               /\ plugins'[rp.UUID].Status = "complete"
               /\ plugins'[rp.UUID].StatusMessage = "removed from configuration"
               /\ RecordedProcessLive(rp) => procs'[rp.ProcessID] = NoProc
          /\ \A pid \in PIDs :
               (procs[pid] # NoProc /\ procs'[pid] = NoProc) =>
                   \E rp \in Orphans : rp.ProcessID = pid /\ RecordedProcessLive(rp)
      ]_vars

\* task t is a goroutine of this agent that has written the running record of
\* plugin u and has not yet seen its process end
Owns(t, u) ==
    /\ tasks[t].kind \in {"launch", "adopt"}
    /\ tasks[t].pc \in {"launched", "waiting", "polling"}
    /\ tasks[t].p.UUID = u

\* C11: for every persisted plugin record, in every reachable state,
\* current_manager is the PID of the running agent if and only if a Launch or
\* Adopt task of this agent instance owns the plugin; the field does not keep
\* the agent's PID after the owning task has recorded the exit.
C11_ManagerIffOwner ==
    agentUp =>
        \A u \in UUIDs :
            plugins[u].UUID # "" =>
                (plugins[u].CurrentManager = manager <=> \E t \in TaskIds : Owns(t, u))

\* a step of task t that can write the record of its plugin
TaskWrite(t) ==
    \/ LaunchStart(t) \/ LaunchPriority(t) \/ LaunchFinish(t)
    \/ AdoptStart(t) \/ AdoptFinish(t)

\* a task started after t, for the same plugin, has written the record
Superseded(t) ==
    /\ ~tasks[t].latest
    /\ \E n \in TaskIds : /\ n # t /\ tasks[n].latest
                          /\ tasks[n].pc \in {"launched", "waiting", "polling"}
                          /\ tasks[n].p.UUID = tasks[t].p.UUID

\* C12: once the Supervisor has started a newer Launch or Adopt task for a
\* uuid and that task has written the record, no older task for the same uuid
\* writes the persisted record afterwards.
C12_OneWriter ==
    [][ \A t \in TaskIds : (TaskWrite(t) /\ Superseded(t)) => plugins' = plugins ]_vars

\* the Launch and Adopt goroutines of plugin u that have not finished
AliveTasks(u) ==
    { t \in TaskIds : /\ tasks[t].kind \in {"launch", "adopt"}
                      /\ tasks[t].pc \in {"start", "launched", "waiting", "polling"}
                      /\ tasks[t].p.UUID = u }

\* C13: at most one Launch-or-Adopt task is alive per plugin uuid within one
\* agent instance: the Supervisor never starts a task for a plugin while an
\* earlier task for the same plugin has not finished.
C13_OneTaskPerPlugin == \A u \in UUIDs : Cardinality(AliveTasks(u)) <= 1

\* C14: every Launch task and every Adopt task signals its channel on every
\* path, error paths included, so that, while the agent process lives, the
\* Supervisor's wait for the signal always ends; and no send of a task on the
\* channel blocks forever.
C14_RendezvousEnds ==
    /\ (sup.pc = "wait") ~> (sup.pc # "wait" \/ ~agentUp)
    /\ \A t \in TaskIds :
         (tasks[t].pc = "defer") ~> (tasks[t].pc # "defer" \/ ~agentUp)

\* a task that failed before its first signal has sent its only, deferred
\* signal to the waiting Supervisor
C14_Witness ==
    /\ agentUp /\ sup.pc = "wait"
    /\ tasks[sup.wait].pc = "done" /\ tasks[sup.wait].ch = 1

\* the messages SetError stores when the start of a plugin fails
StartFailures ==
    { "unable to verify hashes", "unable to start plugin",
      "unable to get plugin process information" }

\* C18: after the start of a plugin failed and the record was written with
\* status "error", the Supervisor does not launch the plugin again unless it
\* is a one-shot plugin with retry_failure; persistent and periodic plugins
\* are not launched again either.
C18_NoRetryAfterStartFailure ==
    [][ ( /\ SupDecide
          /\ LaunchStarted'
          /\ plugins[config[sup.i].UUID].Status = "error"
          /\ plugins[config[sup.i].UUID].StatusMessage \in StartFailures )
        => ( config[sup.i].Mode = "oneshot" /\ config[sup.i].RetryFailure ) ]_vars

\* C19: no behaviour of a plugin process brings the agent into a crashed or
\* terminated state: the agent process is up in every reachable state.
C19_AgentNeverCrashes == agentUp

\* the non-key columns of table plugins
Columns(p) ==
    <<p.Name, p.Mode, p.ProcessName, p.ProcessID, p.CurrentManager, p.Status,
      p.StatusMessage, p.LastStart, p.LastExit>>

AdoptStarted ==
    /\ sup.pc = "wait"
    /\ tasks[sup.wait].kind = "adopt" /\ tasks[sup.wait].pc = "start"
    /\ tasks[sup.wait].p.UUID = config[sup.i].UUID

\* C24: for a persistent or periodic plugin a pass of the Supervisor starts an
\* Adopt task exactly when IsRunning holds and the current_manager of the
\* record differs from the agent's PID (unless IsRunning fails with an error);
\* when IsRunning holds and current_manager is the agent's PID it starts no
\* task; a one-shot plugin is never adopted.
C24_AdoptExactlyForeignRunning ==
    [][ SupDecide =>
          LET plugin == config[sup.i]
              row == PluginSelectUUID(plugins, plugin.UUID)
              running == IsRunning(plugins, plugin.UUID)
              supervised == plugin.Mode \in {"persistent", "periodic"}
          IN  /\ AdoptStarted' =>
                   (supervised /\ running /\ row.CurrentManager # manager)
              /\ ( /\ supervised /\ running /\ row.CurrentManager # manager
                   /\ sup'.pc \in {"gc", "wait"} ) => AdoptStarted'
              /\ (supervised /\ running /\ row.CurrentManager = manager) =>
                   tasks' = tasks ]_vars

\* after a restart the Supervisor has started an Adopt task for a plugin that
\* runs under the PID of the earlier agent instance
C24_Witness ==
    /\ AdoptStarted
    /\ IsRunning(plugins, config[sup.i].UUID)
    /\ plugins[config[sup.i].UUID].CurrentManager # manager
    /\ plugins[config[sup.i].UUID].CurrentManager \in ManagerPids

\* C25: IsRunning is true exactly when the persisted record has status
\* "running", a process_id other than 0 and a process_name other than "", a
\* live process with that PID exists and its executable name is the stored
\* process_name; any mismatch, a reused PID with another name included, gives
\* false.
C25_IsRunningExact ==
    \A u \in UUIDs :
        IsRunning(plugins, u) <=>
            /\ plugins[u].Status = "running"
            /\ plugins[u].ProcessID \in PIDs
            /\ plugins[u].ProcessName # ""
            /\ procs[plugins[u].ProcessID] # NoProc
            /\ procs[plugins[u].ProcessID].name = plugins[u].ProcessName

\* the PID of a running record is held by a process with another executable
\* name, and IsRunning is false
C25_Witness ==
    \E u \in UUIDs :
        /\ plugins[u].Status = "running" /\ plugins[u].ProcessID \in PIDs
        /\ plugins[u].ProcessName # ""
        /\ procs[plugins[u].ProcessID].name = ForeignName
        /\ ~IsRunning(plugins, u)

\* C26: when a Launch task has spawned the child, the record with status
\* "running", the child's PID and executable name, last_start and the agent's
\* PID as current_manager is in the Store when the task signals its channel;
\* and after that the Supervisor does not launch the plugin again while a
\* child of it lives.
C26_LaunchObservable ==
    [][ /\ \A t \in TaskIds :
             (LaunchStart(t) /\ procs' # procs) =>
                 LET u == tasks[t].p.UUID
                     row == PluginSelectUUID(plugins', u)
                 IN  /\ row.Status = "running"
                     /\ row.ProcessID \in PIDs
                     /\ procs'[row.ProcessID].plugin = u
                     /\ row.ProcessName = procs'[row.ProcessID].name
                     /\ row.LastStart = now
                     /\ row.CurrentManager = manager
        /\ (SupDecide /\ ChildAlive(config[sup.i].UUID)) => ~LaunchStarted' ]_vars

\* C27: whenever a Launch task that was waiting for its child leaves cmd.Wait
\* and the agent goes on, the record in the Store has status "complete" after a
\* clean exit and "error" otherwise, LastExit = now and ProcessID = 0, and the
\* Throttler the task started (CPULimit > 0) is cancelled by then.
C27_TerminalRecord ==
    [][ \A t \in TaskIds :
          ( /\ tasks[t].kind = "launch" /\ tasks[t].pc = "waiting"
            /\ tasks'[t].pc # "waiting"
            /\ agentUp' /\ restarts' = restarts ) =>
              LET row == PluginSelectUUID(plugins', tasks[t].p.UUID)
              IN  /\ tasks[t].childDead
                  /\ row.Status = IF tasks[t].exitErr = "" THEN "complete"
                                                           ELSE "error"
                  /\ row.StatusMessage = IF tasks[t].exitErr = "" THEN "complete"
                                         ELSE tasks[t].exitErr
                  /\ row.LastExit = now
                  /\ row.ProcessID = 0
                  /\ row.LastStart = tasks[t].p.LastStart
                  /\ (tasks[t].p.CPULimit > 0 =>
                          tasks[t].pid \notin throttlers') ]_vars

\* a Launch task of the throttled plugin has written "complete" and is gone
C27_Witness ==
    \E u \in UUIDs :
        /\ plugins[u].Status = "complete" /\ plugins[u].StatusMessage = "complete"
        /\ plugins[u].ProcessID = 0 /\ plugins[u].LastExit = now
        /\ plugins[u].LastStart = now
        /\ \E i \in 1..Len(config) : config[i].UUID = u /\ config[i].CPULimit > 0
        /\ throttlers = {}
        /\ \A t \in TaskIds : tasks[t].kind # "launch"

\* C28: online, every step of a Launch or Adopt task that writes the record of
\* its plugin appends exactly one message for /core/pluginlog/ (the trigger may
\* drop the oldest ones); that message equals the written record in every
\* column but current_manager, which is 0 in every queued message while the
\* record holds the value the task wrote.
C28_StatusMirrored ==
    [][ /\ \A t \in TaskIds :
             (TaskWrite(t) /\ plugins' # plugins) =>
                 LET row == PluginSelectUUID(plugins', tasks[t].p.UUID)
                     n == Len(queue')
                     kept == n - 1
                 IN  /\ n = (IF Len(queue) < QueueCap THEN Len(queue) + 1
                                                     ELSE QueueCap)
                     /\ queue'[n].rowid = MaxRowId(queue) + 1
                     /\ queue'[n].post_uri = PLUGINLOG
                     /\ SubSeq(queue', 1, kept) =
                            SubSeq(queue, Len(queue) - kept + 1, Len(queue))
                     /\ Row(queue'[n].post_string) =
                            [row EXCEPT !.CurrentManager = 0]
                     /\ (tasks'[t].pc \in {"launched", "polling"} =>
                            row.CurrentManager = manager)
        /\ \A i \in 1..Len(queue') :
             queue'[i].post_string.CurrentManager = 0 ]_vars

\* the running record of a launched child holds the PID of the agent, and the
\* newest queued message is that record with current_manager 0
C28_Witness ==
    /\ ~mode.Offline /\ queue # <<>>
    /\ \E t \in TaskIds :
         /\ tasks[t].kind = "launch" /\ tasks[t].pc = "launched"
         /\ LET row == PluginSelectUUID(plugins, tasks[t].p.UUID)
                msg == queue[Len(queue)].post_string
            IN  /\ row.Status = "running" /\ row.CurrentManager = manager
                /\ manager # 0
                /\ msg.CurrentManager = 0
                /\ Row(msg) = [row EXCEPT !.CurrentManager = 0]

\* C29: when an Adopt task that started a Throttler on the PID it adopted
\* finishes, that PID is no longer throttled.
C29_AdoptCancelsThrottler ==
    [][ \A t \in TaskIds :
          (AdoptFinish(t) /\ tasks[t].pid \in throttlers) =>
              tasks[t].pid \notin throttlers' ]_vars

\* C30: a round of the poll loop of an Adopt task takes the record as it is in
\* the Store, and the task leaves the loop in that round exactly when
\* is_running is false or the ProcessID of the record is not the PID adopted.
C30_PollLeavesExactly ==
    [][ \A t \in TaskIds :
          AdoptPoll(t) =>
              LET u == tasks[t].p.UUID
                  row == PluginSelectUUID(plugins, u)
              IN  /\ tasks'[t].p = row
                  /\ tasks'[t].pc # "polling" <=>
                         (~IsRunning(plugins, u) \/ row.ProcessID # tasks[t].pid)
        ]_vars

(***************************************************************************)
(* Properties of VerifyHashes (SpecVerify).                                *)
(***************************************************************************)
\* resource file i is on disk and its SHA-256 is the hash of the configuration,
\* whatever the case of the letters
Verified(i) ==
    /\ verify.disk[i] # "missing"
    /\ Fold(GetSHA256(verify.disk[i])) = Fold(verify.want[i])

\* C31: outside debug mode a Launch task spawns the process only when every
\* resource file is on disk with the SHA-256 of the configuration, and when
\* VerifyHashes returned false it spawns nothing and the record gets status
\* "error".
C31_SpawnOnlyVerified ==
    [][ \A t \in TaskIds :
          LaunchStart(t) =>
              /\ (procs' # procs) =>
                     (mode.Debug \/ \A i \in 1..ResourceCount : Verified(i))
              /\ (~mode.Debug /\ verify.pc = "false") =>
                     /\ procs' = procs
                     /\ plugins'[tasks[t].p.UUID].Status = "error" ]_vars

(***************************************************************************)
(* Properties of the queue, the Drainer and the Transport (SpecComms).     *)
(***************************************************************************)
\* C2: after any sequence of pushes, pops and deletes the queue holds at most
\* QueueCap rows, and after every insert the rows retained are exactly the
\* newest ones: the new row is there, and every row the cap discarded is
\* older than every row kept.
C2_QueueCap ==
    [][ /\ Len(queue') <= QueueCap
        /\ Push =>
             LET new == MaxRowId(queue) + 1
                 before == RowIds(queue) \cup {new}
             IN  /\ new \in RowIds(queue')
                 /\ RowIds(queue') \subseteq before
                 /\ Cardinality(RowIds(queue')) =
                      (IF Len(queue) < QueueCap THEN Len(queue) + 1 ELSE QueueCap)
                 /\ \A gone \in before \ RowIds(queue'), kept \in RowIds(queue') :
                      gone < kept ]_vars

\* an insert into the full queue has discarded a row of the batch the Drainer
\* is sending
C2_Witness ==
    /\ Len(queue) = QueueCap
    /\ drainer.pc = "flight"
    /\ drainer.rowIds \ RowIds(queue) # {}

\* C3: in each cycle of the Drainer the rowids deleted are exactly those of
\* the popped batch when the POST succeeded or the controller answered HTTP
\* 400 or 500, and no row is deleted by the Drainer when the POST failed with
\* any other error.
C3_DrainerDeletes ==
    [][ DrainerHandle =>
          IF drainer.err = NoError \/ drainer.resp.StatusCode \in {400, 500}
          THEN RowIds(queue') = RowIds(queue) \ drainer.rowIds
          ELSE queue' = queue ]_vars

\* C8: when UpdateConnection returns, the pinned (controller, proxy) pair is
\* either a pair for which the conntest request issued with exactly that pair
\* succeeded, or the pair that was pinned before the call.
C8_RefreshPinsTested ==
    checkin.pc = "returned" =>
        \/ <<sender.ControllerURL, TransportProxy(sender.Proxy)>> = checkin.tested
        \/ <<sender.ControllerURL, sender.Proxy>> = checkin.old

\* C9: all operations of the Transport serialize on one mutex: at most one
\* HTTP request of the Transport is in flight at a time.
C9_OneRequestInFlight == Cardinality(inflight) <= 1

\* what Send and Get answer for response resp keeps the contract: no error
\* only for a 200 answer with a verified envelope, and an empty payload with
\* every error
Guarded(err, payload, resp) ==
    /\ err = NoError => ( /\ resp # NetError /\ resp.StatusCode = 200
                          /\ resp.body # "garbage" /\ VerifyResponse(resp) )
    /\ ( \/ resp = NetError \/ resp.StatusCode # 200 \/ resp.body = "garbage"
         \/ ~VerifyResponse(resp) ) => (err # NoError /\ payload = "")

\* C16: Send and Get return a payload with no error only when the controller
\* answered HTTP 200 with an envelope whose SIGNATURE verifies over jsonString;
\* for a non-200 status, an unparsable envelope or a signature that does not
\* verify they return an error and an empty payload.
C16_OnlyVerifiedPayload ==
    /\ drainer.pc = "handle" => Guarded(drainer.err, drainer.payload, drainer.resp)
    /\ \A resp \in Responses :
         /\ Guarded(SendError(resp), SendPayload(resp), resp)
         /\ Guarded(GetError(resp), GetPayload(resp), resp)

\* Send has returned to the Drainer for a 200 answer whose signature does not
\* verify
C16_Witness ==
    /\ drainer.pc = "handle"
    /\ drainer.resp.StatusCode = 200 /\ drainer.resp.body = "unsigned"
    /\ drainer.err # NoError /\ drainer.payload = ""

\* C20: draining is FIFO: a message is never POSTed in a cycle while a message
\* with a smaller rowid is still in the queue and is not part of the same
\* batch, whatever failed cycles and pushes came before; within a batch the
\* messages are in ascending rowid order.
C20_DrainFifo ==
    [][ DrainerDo =>
          /\ \A i \in 1..Len(queue) :
               queue[i].rowid \notin drainer.rowIds =>
                   \A m \in drainer.rowIds : m < queue[i].rowid
          /\ \A i, j \in 1..Len(drainer.batch) :
               i < j => drainer.batch[i] < drainer.batch[j] ]_vars

\* a batch of two is POSTed again after a failed cycle, with a message pushed
\* in between waiting behind it
C20_Witness ==
    /\ drainer.pc = "flight" /\ Len(drainer.batch) = BatchLimit
    /\ pushed > BatchLimit
    /\ \E i \in 1..Len(queue) : queue[i].rowid \notin drainer.rowIds
    /\ 1 \in drainer.rowIds

\* C17: the Checkin Loop exits the process with code 0 only after a check-in
\* reply announced a required_config that differs case-insensitively from the
\* local hash, the resource was fetched and the configuration file was
\* overwritten with it; when a Get or GetResource returns and the process does
\* not exit, the file is not replaced by the bytes of a failed fetch, and the
\* loop goes on to its next round.
C17_ExitOnlyAfterConfigWritten ==
    [][ /\ (os'.exitCode = 0 /\ os.exitCode # 0) =>
              /\ checkin.pc = "flight" /\ checkin.op = "GetResource"
              /\ checkin.reqConfig \in Hashes
              /\ Fold(checkin.reqConfig) # Fold(ConfigHash)
              /\ os'.configFile = Resource
        /\ (CheckinReturn /\ os'.exitCode = os.exitCode) =>
              /\ agentUp'
              /\ os'.configFile \in
                     {os.configFile, WriteFile(os.configFile, Resource, "short")}
              /\ checkin'.pc \in {"lock", "tproxy"} ]_vars

\* the process has exited with code 0 over the new configuration file
C17_Witness ==
    ~agentUp /\ os.exitCode = 0 /\ os.configFile = Resource

\* C21: UpdateConnection tests, for each controller in list order, first the
\* proxy that was pinned when it was called, then no proxy, then the proxies
\* of the list: whenever the first test of a controller is prepared or under
\* way, s.Proxy is the proxy pinned at the call.
C21_RefreshOrder ==
    (checkin.pc \in {"tproxy", "tdo", "tflight"} /\ checkin.ph = "default") =>
        sender.Proxy = checkin.old[2]

\* C32: MessageQueueSelectURI returns at most BatchLimit rows, the rows with
\* the smallest rowids of the queue in ascending order, the same rows for every
\* uri; the payloads and the rowids the Drainer gets from it are of the same
\* rows, in the same order.
C32_PopOldestRows ==
    [][ LET rows == MessageQueueSelectURI(queue, PLUGINLOG)
            n == Len(rows)
        IN  /\ n <= BatchLimit
            /\ n = (IF Len(queue) < BatchLimit THEN Len(queue) ELSE BatchLimit)
            /\ \A i \in 1..n : rows[i] \in { queue[k] : k \in 1..Len(queue) }
            /\ \A i, j \in 1..n : i < j => rows[i].rowid < rows[j].rowid
            /\ \A i \in 1..n : \A k \in 1..Len(queue) :
                 queue[k].rowid \notin RowIds(rows) => rows[i].rowid < queue[k].rowid
            /\ \A uri \in {"", "/core/register/", "/core/other/"} :
                 MessageQueueSelectURI(queue, uri) = rows
            /\ (DrainerPop /\ drainer'.pc = "lock") =>
                 /\ Len(drainer'.msgs) = n /\ Len(drainer'.batch) = n
                 /\ \A i \in 1..n : /\ drainer'.batch[i] = rows[i].rowid
                                    /\ drainer'.msgs[i] = rows[i].post_string ]_vars

\* the Drainer has taken a full batch out of a queue that holds more
C32_Witness ==
    /\ drainer.pc = "lock"
    /\ Len(drainer.msgs) = BatchLimit /\ Len(drainer.batch) = BatchLimit
    /\ Len(queue) > BatchLimit
    /\ drainer.batch[1] = queue[1].rowid

\* C33: a cycle of the Drainer with a full batch ends with a wait of one second
\* and no Vacuum, a cycle with fewer messages with Vacuum and a wait of
\* PollTime, and while the agent runs the next cycle begins after the wait
\* only; a successful cycle
\* over a queue of BatchLimit messages and some more deletes the BatchLimit
\* oldest, leaves the others and takes the wait of one second.
C33_DrainerWaits ==
    [][ /\ DrainerHandle =>
             LET n == Len(drainer.msgs)
             IN  /\ drainer'.pc = "sleep"
                 /\ n >= BatchLimit =>
                        (drainer'.sleep = "second" /\ ~drainer'.vacuum)
                 /\ n < BatchLimit =>
                        (drainer'.sleep = "PollTime" /\ drainer'.vacuum)
                 /\ (n = BatchLimit /\ drainer.err = NoError
                        /\ Len(queue) > BatchLimit
                        /\ \A i \in 1..BatchLimit : queue[i].rowid = drainer.batch[i]) =>
                        /\ queue' = SubSeq(queue, BatchLimit + 1, Len(queue))
                        /\ drainer'.sleep = "second"
        /\ (DrainerPop /\ queue = <<>>) =>
               (drainer'.pc = "sleep" /\ drainer'.sleep = "PollTime"
                    /\ drainer'.vacuum)
        /\ (drainer.pc = "sleep" /\ drainer' # drainer /\ agentUp') => DrainerWake
        /\ drainer'.pc = "lock" => drainer.pc \in {"idle", "lock"} ]_vars

\* after a successful cycle with a full batch the Drainer is in its wait of one
\* second, with what was behind the batch still queued
C33_Witness ==
    /\ drainer.pc = "sleep" /\ drainer.sleep = "second" /\ ~drainer.vacuum
    /\ queue # <<>> /\ queue[1].rowid = BatchLimit + 1
    /\ pushed = BatchLimit + 1

(***************************************************************************)
(* Properties of Bootstrap (SpecBoot).                                     *)
(***************************************************************************)
\* the Checkin loop or the Drainer has been started
LoopsStarted == boot.pc = "done" \/ checkin.pc # "idle" \/ drainer.pc # "idle"

\* C22: an online agent without a client uuid does not leave Bootstrap, and
\* starts no loop, before a registration reply with a non-empty uuid has come;
\* that uuid is in the key store before Bootstrap proceeds; a failed reply or
\* one without uuid leads to another registration attempt.
C22_RegisteredBeforeLoops ==
    [][ /\ (boot'.pc \in {"verify", "done"} \/ LoopsStarted') =>
               (boot'.UUID \in ClientUUIDs /\ boot'.keyUUID = boot'.UUID)
        /\ (BootReturn /\ boot'.UUID = "") => boot'.pc \in {"update", "sleep"}
        /\ (boot.pc \in {"update", "sleep"} /\ boot' # boot) =>
               boot'.pc \in {"sleep", "register"} ]_vars

\* Bootstrap has returned with a uuid that it got after a registration
\* attempt had failed and UpdateConnection had pinned the second controller
C22_Witness ==
    /\ boot.pc = "verify" /\ ~LoopsStarted
    /\ boot.UUID \in ClientUUIDs /\ boot.keyUUID = boot.UUID
    /\ sender.ControllerURL = "https://b"

(***************************************************************************)
(* Properties of the Throttler (SpecThrottle).                             *)
(***************************************************************************)
\* C15: a Throttler that is cancelled through its quit channel returns with
\* every suspend it issued followed by a resume: the last signal it sent to
\* the child is not a suspend, and the child is not left stopped.
C15_CancelledThrottlerResumed ==
    throttle.pc = "returned" =>
        (throttle.lastOp # "suspend" /\ throttle.child # "stopped")

\* the Throttler has suspended and resumed the child with a sleepDuration that
\* it computed from more than one reading, and has returned on quit
C15_Witness ==
    /\ throttle.pc = "returned" /\ throttle.lastOp = "resume"
    /\ throttle.sleepDuration > 2 * Millisecond

\* C34: the sleep duration of a Throttler starts at 1 ms; every call of
\* ThrottleCpu replaces it by (sleep + 1 ms) * 1.2 * measured / target, measured
\* being the CPU percentage per CPU since the last call; when 1.2 * measured is
\* at least target, the new sleep is at least the old one plus 1 ms; and the
\* sleep duration is never negative. (Stated for the Throttler of
\* plugins_windows.go.)
C34_SleepRule ==
    [][ /\ throttle.ticks = 0 => throttle.sleepDuration = 1
        /\ throttle'.sleepDuration >= 0
        /\ WindowsThrottleCpu =>
             LET dProc == throttle'.cpuTime - throttle.cpuTime
                 dTick == throttle'.tickCount - throttle.tickCount
                 target == throttle.TargetCpu
             IN  /\ throttle.ticks > 0 =>
                        throttle'.sleepDuration =
                            ((throttle.sleepDuration + 1) * 12 * 100 * dProc)
                                \div (10 * dTick * NumCPU * target)
                 /\ (throttle.ticks > 0
                        /\ 12 * 100 * dProc >= 10 * target * dTick * NumCPU) =>
                        throttle'.sleepDuration >= throttle.sleepDuration + 1
      ]_vars

(***************************************************************************)
(* Properties of the error handling of the three loops (SpecBoot)          *)
(***************************************************************************)

\* the error of a request that got no response: "NETWORK ERROR: ..."
TransportError(err) == err # NoError /\ Head(err) = "NETWORK ERROR: "

\* the pair UpdateConnection pins
PinnedPair == <<sender.ControllerURL, sender.Proxy>>

\* C35: a transport error of a request of the check-in round (the hello Get
\* or the fetch of the required configuration) or of the registration is
\* followed by UpdateConnection before the next request of that loop, and no
\* step of the queue drain changes the pinned (controller, proxy) pair
C35_TransportErrorRefreshes ==
    [][ /\ (CheckinReturn /\ agentUp' /\ TransportError(checkin'.err)) =>
              checkin'.pc = "tproxy"
        /\ (boot.pc = "update" /\ boot' # boot) => BootUpdateConnection
        /\ (DrainerPop \/ DrainerLock \/ DrainerSetProxy \/ DrainerDo
              \/ DrainerReturn \/ DrainerHandle \/ DrainerWake) =>
              PinnedPair' = PinnedPair ]_vars

(***************************************************************************)
(* Properties of the Supervisor and its tasks taken together (Spec,        *)
(* SpecFair).                                                              *)
(***************************************************************************)

\* the child processes of plugin u that are alive
Children(u) == { pid \in PIDs : procs[pid].plugin = u }

\* a child of plugin u that this agent instance launched or adopted is alive
OwnChildAlive(u) ==
    \E pid \in Children(u) :
        \/ restarts = 0
        \/ \E t \in TaskIds : /\ tasks[t].kind \in {"launch", "adopt"}
                              /\ tasks[t].p.UUID = u /\ tasks[t].pid = pid

\* C36: the Supervisor never starts a Launch task for a plugin while a child
\* process that this agent instance launched or adopted for that plugin is
\* alive, and at most one child process per plugin uuid is alive at any time.
C36_NoDoubleLaunch ==
    [][ /\ (SupDecide /\ LaunchStarted') => ~OwnChildAlive(config[sup.i].UUID)
        /\ \A u \in UUIDs : Cardinality(Children(u)') <= 1 ]_vars

\* plugin u is in the current configuration
Configured(u) == \E k \in 1..Len(config) : config[k].UUID = u

\* C37: the garbage collection of the Supervisor never kills a process that
\* belongs to a plugin of the current configuration: every process it kills
\* is the process recorded for a uuid that is absent from the configuration.
C37_GCSparesConfigured ==
    [][ SupGC =>
          \A pid \in PIDs :
              (procs[pid] # NoProc /\ procs'[pid] = NoProc) =>
                  /\ ~Configured(procs[pid].plugin)
                  /\ \E rp \in Orphans : rp.ProcessID = pid ]_vars

\* C38: every record with status "running" whose uuid is absent from the
\* configuration is marked "complete" within one pass of the Supervisor,
\* whatever the configuration and also when the plugins of the pass are
\* skipped (a Store read error, a one-shot in error that is not retried):
\* when a pass ends, a pass whose garbage collection could not read the
\* table set aside, no such record is left.
C38_OrphansMarkedInPass ==
    [][ (agentUp /\ agentUp' /\ sup.pc # "sleep" /\ sup'.pc = "sleep"
            /\ restarts' = restarts) =>
          (SupGC \/ Orphans' = {}) ]_vars

\* the status values a row of table plugins takes
StoredStatuses == {"", "running", "error", "complete"}

\* C39: once an Adopt task has stored its "resuming control" record, no later
\* step of it changes table plugins: when the adopted process is gone, status,
\* process_id, last_exit and status_message of the stored row stay as they
\* were, and the status "exited after monitoring resumed" is in the queued
\* message only; the status of a stored row is always one of "", "running",
\* "error", "complete".
C39_AdoptExitOnlyQueued ==
    [][ /\ \A t \in TaskIds :
             /\ (AdoptPoll(t) \/ AdoptFinish(t)) => plugins' = plugins
             /\ (AdoptFinish(t) /\ ~mode.Offline) =>
                    LET msg == queue'[Len(queue')]
                    IN  /\ queue' # <<>>
                        /\ msg.rowid = MaxRowId(queue) + 1
                        /\ msg.post_string.Status = "exited after monitoring resumed"
                        /\ msg.post_string.StatusMessage =
                               "exited after monitoring resumed"
        /\ \A u \in UUIDs : plugins'[u].Status \in StoredStatuses ]_vars

\* an Adopt task has ended after the process it adopted went away: its last
\* message carries the status "exited after monitoring resumed", the stored
\* row is still the "resuming control" record with the PID of that process
C39_Witness ==
    /\ ~mode.Offline /\ queue # <<>>
    /\ \E t \in TaskIds :
         /\ tasks[t].kind = "adopt" /\ tasks[t].pc = "defer"
         /\ LET msg == queue[Len(queue)].post_string
            IN  /\ msg.Status = "exited after monitoring resumed"
                /\ msg.UUID \in UUIDs
                /\ plugins[msg.UUID].Status = "running"
                /\ plugins[msg.UUID].StatusMessage = "resuming control"
                /\ plugins[msg.UUID].ProcessID # 0
                /\ plugins[msg.UUID].LastExit # msg.LastExit
                /\ ~ChildAlive(msg.UUID)

\* C40: while the agent runs, a Launch task whose child has exited comes to
\* its terminal write: the send on quit that precedes it (CPULimit > 0) is
\* received, so the task does not stay between cmd.Wait and UpdateStatus.
C40_LaunchFinishes ==
    \A t \in TaskIds :
        (tasks[t].kind = "launch" /\ tasks[t].pc = "waiting" /\ tasks[t].childDead)
            ~> (~agentUp \/ tasks[t].pc # "waiting")

====
